---- MODULE Spec2Model ----
(***************************************************************************)
(* Model of the benchmark harness of qcomp-2023-stochastic-games-models:   *)
(* the data model (eval/data/__init__.py), the re-execution planner, the   *)
(* sandboxed runner and the experiment store (eval.py).                    *)
(*                                                                         *)
(* Python values are represented as follows.  A str or bytes value is a    *)
(* sequence of small integers (code points / byte values).  A dict is a    *)
(* function whose DOMAIN is the set of its keys; where insertion order     *)
(* matters (Instance.constants) it is the sequence of its items.  None is  *)
(* the record [none |-> TRUE].  A dataclass instance is a record with a    *)
(* "cls" field naming its class.  A JSON object is a record whose fields   *)
(* are the JSON keys.                                                      *)
(***************************************************************************)
EXTENDS Integers, Sequences, FiniteSets, TLC

VARIABLES
    call,        \* the arguments of the function under check (component specifications)
    ret,         \* its return value, or NotReturned
    pc,          \* where main is
    exc,         \* the exception that ended main or the call ("" while none has)
    config,      \* args, the instances, and what main computes before planning
    file,        \* the persisted store: the file at args.data
    experiments, \* main's dict instance key -> Experiment
    to_execute,  \* the work list
    idx,         \* position of the execution loop in the work list
    rpc,         \* where run is, "idle" outside of it
    frame,       \* run's pending return value or exception, and the loop's result
    sandbox,     \* the backend's view of the container run created last
    created,     \* number of containers created so far
    now,         \* the clock (time.time())
    rerun,       \* whether this is the second invocation of the program
    history      \* what happened in this invocation (for the properties only)

harness == <<call, ret>>
process == <<pc, exc, config, file, experiments, to_execute, idx, rpc, frame,
             sandbox, created, now, rerun, history>>
vars == <<call, ret, pc, exc, config, file, experiments, to_execute, idx, rpc,
          frame, sandbox, created, now, rerun, history>>

None == [none |-> TRUE]
NotReturned == [returned |-> FALSE]

\* An empty dict.
EmptyDict == [k \in {} |-> None]

\* run is not active: nothing pending, no result.
NoFrame == [pending |-> None, result |-> None]

\* No container has been created.
NoSandbox == [calls |-> <<>>, exit_code |-> 0, stdout |-> <<>>, stderr |-> <<>>,
              removed |-> FALSE, mem_limit |-> 0, heap |-> 0, javamaxmem |-> 0]

NoHistory ==
    [interrupted |-> FALSE, failed |-> {}, disturbances |-> 0, loaded |-> EmptyDict,
     recorded |-> <<>>, file_at_start |-> None, previous |-> None,
     fatal |-> None, open |-> 0, cleanup |-> <<>>, save_reached |-> FALSE,
     interrupt |-> None]

ProcessIdle ==
    /\ pc = "idle" /\ exc = "" /\ config = None /\ file = None
    /\ experiments = EmptyDict /\ to_execute = <<>> /\ idx = 0 /\ rpc = "idle"
    /\ frame = NoFrame /\ sandbox = NoSandbox /\ created = 0 /\ now = 0
    /\ rerun = FALSE /\ history = NoHistory

(***************************************************************************)
(* Bounds of the model.                                                    *)
(***************************************************************************)
MaxFileLen == 1       \* length of a model / property file, in bytes
MaxConstants == 2     \* number of constants of an instance
MaxTime == 2          \* the clock: timestamps are 0..MaxTime
MaxDuration == 2       \* wall-clock duration of a run, in seconds
MaxDisturbances == 2  \* failed or interrupted calls in one invocation

Byte == {1, 2}
RECURSIVE SeqsUpTo(_, _)
SeqsUpTo(S, n) ==
    IF n = 0 THEN {<<>>}
    ELSE LET shorter == SeqsUpTo(S, n - 1)
         IN  shorter \cup {Append(s, x) : s \in {t \in shorter : Len(t) = n - 1}, x \in S}

(***************************************************************************)
(* Instance.create_hash.  The sha256 digest is treated as injective on the *)
(* byte stream the hasher is fed, so the digest of a stream is represented *)
(* by the stream itself: update appends, digest reads the stream.          *)
(***************************************************************************)
sha256 == <<>>
update(hasher, b) == hasher \o b
digest(hasher) == hasher

\* str.encode(): UTF-8, one byte for a code point below 128 and two bytes for
\* one below 2048 (the code points used here are below 2048).
RECURSIVE encode(_)
encode(s) ==
    IF s = <<>> THEN <<>>
    ELSE (IF Head(s) < 128 THEN <<Head(s)>>
          ELSE <<192 + (Head(s) \div 64), 128 + (Head(s) % 64)>>)
         \o encode(Tail(s))

\* Python's ordering of str: lexicographic by code point, a proper prefix first.
RECURSIVE StrLess(_, _)
StrLess(s, t) ==
    IF t = <<>> THEN FALSE
    ELSE IF s = <<>> THEN TRUE
    ELSE IF Head(s) # Head(t) THEN Head(s) < Head(t)
    ELSE StrLess(Tail(s), Tail(t))

\* Ordering of the (name, value) tuples of dict.items(): by name, then by value.
ItemLess(a, b) == StrLess(a[1], b[1]) \/ (a[1] = b[1] /\ StrLess(a[2], b[2]))

RECURSIVE InsertSorted(_, _)
InsertSorted(x, s) ==
    IF s = <<>> THEN <<x>>
    ELSE IF ItemLess(x, Head(s)) THEN <<x>> \o s
    ELSE <<Head(s)>> \o InsertSorted(x, Tail(s))

\* sorted(items): stable, ascending.
RECURSIVE sorted(_)
sorted(items) ==
    IF items = <<>> THEN <<>>
    ELSE InsertSorted(items[Len(items)], sorted(SubSeq(items, 1, Len(items) - 1)))

\* The mutant of ConstantsOrder: the items are fed in insertion order.
ConstantsOrderUnsorted(items) == items

\* The order in which create_hash feeds the constants to the hasher.
ConstantsOrder(items) == sorted(items)

RECURSIVE UpdateConstants(_, _)
UpdateConstants(hasher, items) ==
    IF items = <<>> THEN hasher
    ELSE UpdateConstants(update(update(hasher, encode(Head(items)[1])),
                                encode(Head(items)[2])),
                         Tail(items))

\* fs maps a path to the bytes of the file; a file shorter than the 64 KiB
\* chunk is read in one chunk, and the loop ends at the empty read.
create_hash(instance, fs) ==
    LET h1 == update(sha256, fs[instance.prism_model])
        h2 == update(h1, fs[instance.prism_properties])
        h3 == UpdateConstants(h2, ConstantsOrder(instance.constants))
    IN  digest(h3)

(***************************************************************************)
(* Tool adapters (eval/tools): identity keys and images.                   *)
(***************************************************************************)
PET(core) == [cls |-> "PET", core |-> core]
PRISMGames(engine) == [cls |-> "PRISMGames", engine |-> engine]
PRISMGamesExtensions(method) == [cls |-> "PRISMGamesExtensions", method |-> method]
Tempest == [cls |-> "Tempest"]

\* PRISMGamesExtensions.Method.key
Method_key(method) ==
    CASE method = "INTERVAL_ITERATION" -> "ii"
      [] method = "OPTIMISTIC_VALUE_ITERATION" -> "ovi"
      [] method = "WIDEST_PATH" -> "wp"

unique_key(tool) ==
    CASE tool.cls = "PET" -> IF tool.core THEN "pet-core" ELSE "pet"
      [] tool.cls = "PRISMGames" -> "prism-games-" \o tool.engine
      [] tool.cls = "PRISMGamesExtensions" -> "prism-games-extension-" \o Method_key(tool.method)
      [] tool.cls = "Tempest" -> "tempest"

docker_image_name(tool) ==
    CASE tool.cls = "PET" -> "pet:latest"
      [] tool.cls = "PRISMGames" -> "prism-games:latest"
      [] tool.cls = "PRISMGamesExtensions" -> "prism-games-extensions:latest"
      [] tool.cls = "Tempest" -> "tempest:latest"

\* The configured tools, in the order of the list.
TOOLS ==
    << PET(TRUE),
       PET(FALSE),
       PRISMGames("explicit"),
       PRISMGames("mtbdd"),
       PRISMGamesExtensions("INTERVAL_ITERATION"),
       PRISMGamesExtensions("OPTIMISTIC_VALUE_ITERATION"),
       PRISMGamesExtensions("WIDEST_PATH"),
       Tempest >>

ToolSet == {TOOLS[n] : n \in 1..Len(TOOLS)}
ToolKeys == {unique_key(t) : t \in ToolSet}

(***************************************************************************)
(* Data model (eval/data/__init__.py): Result variants, Execution,         *)
(* Experiment, and their JSON forms.                                       *)
(***************************************************************************)
\* A raised exception, as the value of the call that raised it.
Raise(e) == [raise |-> e]
Raised(v) == "raise" \in DOMAIN v
\* A returned value, where the call may also raise.
Return(v) == [value |-> v]

\* ErrorType: the members in definition order, as <<name, value>>.
ErrorTypeMembers ==
    << <<"PARSING", "parsing">>,
       <<"OUTPUT", "output">>,
       <<"OUT_OF_MEMORY", "memory">>,
       <<"STACK_OVERFLOW", "stackoverflow">>,
       <<"CONVERGENCE", "convergence">>,
       <<"INTERNAL", "internal">>,
       <<"GENERIC", "generic">> >>

ErrorType == {ErrorTypeMembers[n][1] : n \in 1..Len(ErrorTypeMembers)}

\* ErrorType.<member>.value
ErrorType_value(member) ==
    LET n == CHOOSE n \in 1..Len(ErrorTypeMembers) : ErrorTypeMembers[n][1] = member
    IN  ErrorTypeMembers[n][2]

\* ErrorType.by_value: the first member whose value is the given one, as a
\* set of at most one member (empty: KeyError).
ErrorType_by_value(value) ==
    LET hits == {n \in 1..Len(ErrorTypeMembers) : ErrorTypeMembers[n][2] = value}
    IN  IF hits = {} THEN {}
        ELSE {ErrorTypeMembers[CHOOSE n \in hits : \A m \in hits : n <= m][1]}

Timeout(output, error, time) ==
    [cls |-> "Timeout", output |-> output, error |-> error, time |-> time]

Error(output, error, time, code, error_type) ==
    [cls |-> "Error", output |-> output, error |-> error, time |-> time,
     code |-> code, error_type |-> error_type]

TerminationOutcome(construction_time, result) ==
    [cls |-> "TerminationOutcome", construction_time |-> construction_time,
     result |-> result]

Termination(output, error, time, outcome, wall_time, user_time, resident_size) ==
    [cls |-> "Termination", output |-> output, error |-> error, time |-> time,
     outcome |-> outcome, wall_time |-> wall_time, user_time |-> user_time,
     resident_size |-> resident_size]

Execution(timestamp, tool_hash, result) ==
    [cls |-> "Execution", timestamp |-> timestamp, tool_hash |-> tool_hash,
     result |-> result]

Experiment(instance_key, input_hash, tool_executions) ==
    [cls |-> "Experiment", instance_key |-> instance_key, input_hash |-> input_hash,
     tool_executions |-> tool_executions]

isinstance(v, cls) == v.cls = cls

Timeout_to_json(self) ==
    [type |-> "timeout", stdout |-> self.output, stderr |-> self.error,
     time |-> self.time]

Error_to_json(self) ==
    [type |-> "error", code |-> self.code, error |-> ErrorType_value(self.error_type),
     stdout |-> self.output, stderr |-> self.error, time |-> self.time]

TerminationOutcome_to_json(self) ==
    [construction |-> self.construction_time, result |-> self.result]

TerminationOutcome_parse(data) ==
    TerminationOutcome(data.construction, data.result)

\* The mutant of Termination_to_json: the outcome is written also when absent.
Termination_to_json_AlwaysOutcome(self) ==
    [type |-> "terminated", wall_time |-> self.wall_time, user_time |-> self.user_time,
     stdout |-> self.output, resident_size |-> self.resident_size,
     stderr |-> self.error, time |-> self.time,
     outcome |-> IF self.outcome # None
                 THEN TerminationOutcome_to_json(self.outcome)
                 ELSE [construction |-> 0, result |-> "None"]]

Termination_to_json(self) ==
    IF self.outcome # None
    THEN [type |-> "terminated", wall_time |-> self.wall_time,
          user_time |-> self.user_time, stdout |-> self.output,
          resident_size |-> self.resident_size, stderr |-> self.error,
          time |-> self.time, outcome |-> TerminationOutcome_to_json(self.outcome)]
    ELSE [type |-> "terminated", wall_time |-> self.wall_time,
          user_time |-> self.user_time, stdout |-> self.output,
          resident_size |-> self.resident_size, stderr |-> self.error,
          time |-> self.time]

\* Result.to_json, dispatched on the class of the result.
Result_to_json(self) ==
    CASE isinstance(self, "Timeout") -> Timeout_to_json(self)
      [] isinstance(self, "Error") -> Error_to_json(self)
      [] isinstance(self, "Termination") -> Termination_to_json(self)

Result_parse(data) ==
    LET data_type == data.type
        output == data.stdout
        error == data.stderr
        time == data.time
    IN  IF data_type = "timeout" THEN Timeout(output, error, time)
        ELSE IF data_type = "error"
        THEN LET et == ErrorType_by_value(data.error)
             IN  IF et = {} THEN Raise("KeyError")
                 ELSE Error(output, error, time, data.code, CHOOSE m \in et : TRUE)
        ELSE IF data_type = "terminated"
        THEN LET outcome == IF "outcome" \in DOMAIN data
                            THEN TerminationOutcome_parse(data.outcome)
                            ELSE None
             IN  Termination(output, error, time, outcome, data.wall_time,
                             data.user_time, data.resident_size)
        ELSE Raise("KeyError")

Execution_to_json(self) ==
    [timestamp |-> self.timestamp, hash |-> self.tool_hash,
     result |-> Result_to_json(self.result)]

Execution_parse(data) ==
    LET result == Result_parse(data.result)
    IN  IF Raised(result) THEN result
        ELSE Execution(data.timestamp, data.hash, result)

Experiment_to_json(self) ==
    [key |-> self.instance_key, hash |-> self.input_hash,
     tools |-> [tool_key \in DOMAIN self.tool_executions |->
                   Execution_to_json(self.tool_executions[tool_key])]]

Experiment_parse(data) ==
    LET executions == [tool_key \in DOMAIN data.tools |->
                          Execution_parse(data.tools[tool_key])]
    IN  IF \E tool_key \in DOMAIN executions : Raised(executions[tool_key])
        THEN Raise("KeyError")
        ELSE Experiment(data.key, data.hash, executions)

(***************************************************************************)
(* Captured output.  A stream is a sequence of lines.  A line of stdout is *)
(* the sequence of its space-separated words, the marker it starts with    *)
(* being the first word; a line of stderr is the sequence of its           *)
(* comma-separated fields.  The stream is held either as str or as bytes.  *)
(***************************************************************************)
\* A str and a bytes value holding the given lines.
Str(lines) == [str |-> lines]
Bytes(lines) == [bytes |-> lines]

\* A field of bytes that are not valid UTF-8.
InvalidBytes == "\\xff"
Undecodable == <<<<InvalidBytes>>>>

\* bytes.decode(): strict UTF-8; UnicodeDecodeError on bytes that are not.
decode(b) ==
    IF \E n \in 1..Len(b.bytes) : \E k \in 1..Len(b.bytes[n]) :
          b.bytes[n][k] = InvalidBytes
    THEN Raise("UnicodeDecodeError")
    ELSE Return(Str(b.bytes))

ConstructionLine(v) == <<"Time for model construction:", v, "seconds.">>
ResultLine(v) == <<"Result:", v, "(value in the initial state)">>

StdoutEmpty == <<>>
StdoutParsable == <<ConstructionLine("0.5"), ResultLine("0.25")>>
StdoutNoResult == <<ConstructionLine("0.5")>>
StdoutMalformed == <<ConstructionLine("n/a"), ResultLine("0.25")>>
Stdouts ==
    {StdoutEmpty, StdoutParsable, StdoutNoResult, StdoutMalformed, Undecodable}

\* The command line echoed by /usr/bin/time -f "%C\n%x,%e,%U,%M".
CommandLine == <<"prism /tmp/model.prism /tmp/model.props">>
MeasurementRecord(x, e, U, M) == <<x, e, U, M>>

StderrEmpty == <<>>
StderrOneLine == <<MeasurementRecord("0", "1.5", "1.2", "2048")>>
StderrValid(x) == <<CommandLine, MeasurementRecord(x, "1.5", "1.2", "2048")>>
StderrMissingField == <<CommandLine, <<"0", "1.5", "1.2">>>>
StderrNonNumeric == <<CommandLine, MeasurementRecord("0", "1.5", "?", "2048")>>
StderrFloatResident == <<CommandLine, MeasurementRecord("0", "1.5", "1.2", "2048.5")>>
StderrNoRecord == <<CommandLine, <<"Command terminated by signal 9">>>>
Stderrs ==
    {StderrEmpty, StderrOneLine, StderrValid("0"), StderrValid("1"),
     StderrMissingField, StderrNonNumeric, StderrFloatResident, StderrNoRecord,
     Undecodable}

(***************************************************************************)
(* Number parsing.  int(s) accepts the integer literals; float(s) accepts  *)
(* the integer and the decimal literals.  A float parsed from text is      *)
(* represented by its value in hundredths.                                 *)
(***************************************************************************)
IntLiterals == {"0", "1", "124", "137", "2048"}
DecimalLiterals == {"0.25", "0.5", "1.2", "1.5"}

int(s) ==
    CASE s = "0" -> Return(0)
      [] s = "1" -> Return(1)
      [] s = "124" -> Return(124)
      [] s = "137" -> Return(137)
      [] s = "2048" -> Return(2048)
      [] OTHER -> Raise("ValueError")

float(s) ==
    CASE s = "0.25" -> Return(25)
      [] s = "0.5" -> Return(50)
      [] s = "1.2" -> Return(120)
      [] s = "1.5" -> Return(150)
      [] s \in IntLiterals -> Return(100 * int(s).value)
      [] OTHER -> Raise("ValueError")

(***************************************************************************)
(* Outcome parsers of the tool adapters.                                   *)
(***************************************************************************)
\* line.startswith(marker): the marker is the first word of the line.
startswith(line, marker) == Len(line) >= 1 /\ line[1] = marker

\* line[len(marker):].split(" ", maxsplit=1)[0]: the word after the marker
\* (the empty string when nothing follows).
WordAfter(line) == IF Len(line) >= 2 THEN line[2] ELSE ""

FirstIndex(lines, marker) ==
    LET hits == {n \in 1..Len(lines) : startswith(lines[n], marker)}
    IN  IF hits = {} THEN 0 ELSE CHOOSE n \in hits : \A m \in hits : n <= m

\* PRISMTool.parse_outcome.  The second loop runs over lines[::-1] and does
\* not break: the result it ends with is that of the last line it visits
\* that starts with the marker, which is the first such line of stdout.
PRISMTool_parse_outcome(stdout, stderr) ==
    LET lines == stdout.str
        c == FirstIndex(lines, "Time for model construction:")
        r == FirstIndex(lines, "Result:")
    IN  IF c = 0 THEN Return(None)
        ELSE LET construction == float(WordAfter(lines[c]))
             IN  IF Raised(construction) THEN construction
                 ELSE IF r = 0 THEN Return(None)
                 ELSE Return(TerminationOutcome(construction.value, WordAfter(lines[r])))

\* PET.parse_outcome: json.loads(stdout) raises on text that is not a JSON
\* document, as is every stdout of this model.
PET_parse_outcome(stdout, stderr) == Raise("JSONDecodeError")

\* Tempest.parse_outcome: the construction time is the text after the marker
\* without its last two characters, the result the whole text after its marker.
Tempest_parse_outcome(stdout, stderr) ==
    LET lines == stdout.str
        c == FirstIndex(lines, "Time for model construction:")
        r == FirstIndex(lines, "Result (for initial states):")
    IN  IF c = 0 THEN Return(None)
        ELSE LET construction == float(WordAfter(lines[c]))
             IN  IF Raised(construction) THEN construction
                 ELSE IF r = 0 THEN Return(None)
                 ELSE Return(TerminationOutcome(construction.value, WordAfter(lines[r])))

\* tool.parse_outcome(stdout, stderr), dispatched on the class of the tool.
parse_outcome(tool, stdout, stderr) ==
    CASE tool.cls = "PET" -> PET_parse_outcome(stdout, stderr)
      [] tool.cls = "Tempest" -> Tempest_parse_outcome(stdout, stderr)
      [] OTHER -> PRISMTool_parse_outcome(stdout, stderr)

\* Whether tool.get_invocation accepts the four positional arguments run
\* passes (model path, constants, properties path, memory): the PRISM
\* adapters take memory_limit, PET and Tempest take three arguments only.
AcceptsMemoryArgument(tool) ==
    tool.cls \in {"PRISMGames", "PRISMGamesExtensions"}

(***************************************************************************)
(* The error classifier.                                                   *)
(***************************************************************************)
\* marker in stderr
Contains(stream, marker) ==
    \E n \in 1..Len(stream.str) : \E f \in 1..Len(stream.str[n]) : stream.str[n][f] = marker

\* Tool.recognize_error: no adapter overrides it.
Tool_recognize_error(tool, stdout, stderr, exit_code) == None

\* The mutant of recognize_error: the stack-overflow check comes first.
recognize_error_StackFirst(stdout, stderr, exit_code, tool) ==
    IF Contains(stderr, "java.lang.StackOverflowError") THEN "STACK_OVERFLOW"
    ELSE IF \E err \in {"java.lang.OutOfMemoryError", "ArrayIndexOutOfBounds",
                        "NegativeArraySizeException"} : Contains(stderr, err)
    THEN "OUT_OF_MEMORY"
    ELSE IF Contains(stderr, "Iterative method did not converge") THEN "CONVERGENCE"
    ELSE IF Contains(stderr, "IllegalArgumentException") THEN "INTERNAL"
    ELSE "GENERIC"

recognize_error(stdout, stderr, exit_code, tool) ==
    IF \E err \in {"java.lang.OutOfMemoryError", "ArrayIndexOutOfBounds",
                   "NegativeArraySizeException"} : Contains(stderr, err)
    THEN "OUT_OF_MEMORY"
    ELSE IF Contains(stderr, "java.lang.StackOverflowError") THEN "STACK_OVERFLOW"
    ELSE IF Contains(stderr, "Iterative method did not converge") THEN "CONVERGENCE"
    ELSE IF Contains(stderr, "IllegalArgumentException") THEN "INTERNAL"
    ELSE LET tool_error == Tool_recognize_error(tool, stdout, stderr, exit_code)
         IN  IF tool_error # None THEN tool_error.value ELSE "GENERIC"

(***************************************************************************)
(* run: the derivation of the Result from the exit code and the logs       *)
(* (the body of the try block after the logs were read).                   *)
(***************************************************************************)
\* exit_code == 124 or exit_code == 137
IsTimeoutCode(exit_code) == exit_code = 124 \/ exit_code = 137

\* The four conversions of the measurement record, in order; the first that
\* fails raises (ValueError, or IndexError for a missing field).
ParseTimeData(time_data) ==
    LET field(n, conv(_)) == IF Len(time_data) < n THEN Raise("IndexError")
                             ELSE conv(time_data[n])
        a == field(1, int)
        b == field(2, float)
        c == field(3, float)
        d == field(4, int)
    IN  IF Raised(a) THEN a
        ELSE IF Raised(b) THEN b
        ELSE IF Raised(c) THEN c
        ELSE IF Raised(d) THEN d
        ELSE Return(<<a.value, b.value, c.value, d.value>>)

\* len(stderr_lines) < 2
TooFewLines(stderr_lines) == Len(stderr_lines) < 2

\* interrupted: a KeyboardInterrupt is raised inside tool.parse_outcome.
DeriveResult(tool, exit_code, stdout, stderr, duration, interrupted) ==
    IF IsTimeoutCode(exit_code) THEN Timeout(stdout, stderr, duration)
    ELSE IF TooFewLines(stderr.str)
    THEN Error(stdout, stderr, duration, exit_code, "OUTPUT")
    ELSE LET measured == ParseTimeData(stderr.str[Len(stderr.str)])
         IN  IF Raised(measured)
             THEN Error(stdout, stderr, duration, exit_code, "OUTPUT")
             ELSE IF exit_code # 0
             THEN Error(stdout, stderr, duration, exit_code,
                        recognize_error(stdout, stderr, exit_code, tool))
             ELSE LET outcome == IF interrupted THEN Raise("KeyboardInterrupt")
                                 ELSE parse_outcome(tool, stdout, stderr)
                  IN  IF Raised(outcome)
                      THEN Error(stdout, stderr, duration, exit_code, "OUTPUT")
                      ELSE Termination(stdout, stderr, duration, outcome.value,
                                       measured.value[2], measured.value[3],
                                       measured.value[4])

\* Whether run reaches tool.parse_outcome on these logs.
ReachesParser(exit_code, stderr) ==
    /\ exit_code = 0
    /\ ~TooFewLines(stderr.str)
    /\ ~Raised(ParseTimeData(stderr.str[Len(stderr.str)]))

(***************************************************************************)
(* The round trip Experiment.parse(experiment.to_json()).                  *)
(***************************************************************************)
ExitCodes == {0, 1, 124, 137}
Timestamps == 0..MaxTime
Durations == 0..MaxDuration
ToolHashes == {"sha-current", "sha-previous"}
InputHashes == {"hash-current", "hash-previous"}

JsonResults ==
    {Timeout(Str(StdoutEmpty), Str(StderrEmpty), d) : d \in Durations}
    \cup {Error(Str(StdoutEmpty), Str(StderrValid("1")), d, c, et) :
            d \in Durations, c \in {0, 1}, et \in ErrorType}
    \cup {Termination(Str(StdoutParsable), Str(StderrValid("0")), d, o, 150, 120, 2048) :
            d \in Durations, o \in {None, TerminationOutcome(50, "0.25")}}

JsonExecutions ==
    {Execution(ts, h, r) : ts \in {0, MaxTime}, h \in {"sha-current"}, r \in JsonResults}

JsonToolKeys == {unique_key(TOOLS[1]), unique_key(TOOLS[3])}

JsonExperiments ==
    {Experiment("instance", h, x) :
        h \in {"hash-current"},
        x \in UNION {[K -> JsonExecutions] : K \in SUBSET JsonToolKeys}}

JsonInit ==
    /\ ProcessIdle
    /\ \E e \in JsonExperiments : call = [experiment |-> e]
    /\ ret = NotReturned

JsonRoundTrip ==
    /\ ret = NotReturned
    /\ LET data == Experiment_to_json(call.experiment)
       IN  ret' = [returned |-> TRUE, data |-> data, parsed |-> Experiment_parse(data)]
    /\ UNCHANGED call
    /\ UNCHANGED process

SpecJson == JsonInit /\ [][JsonRoundTrip]_vars

\* C7: for every Experiment whose Executions hold any of the Result variants,
\* Experiment.parse(experiment.to_json()) equals the original Experiment.
C7_RoundTrip ==
    ret # NotReturned => ret.parsed = call.experiment

\* An Experiment holding a Termination without outcome beside an Error has
\* been serialized, without an "outcome" key, and parsed.
C7_Witness ==
    /\ ret # NotReturned
    /\ \E k1, k2 \in DOMAIN call.experiment.tool_executions :
          /\ call.experiment.tool_executions[k1].result.cls = "Termination"
          /\ call.experiment.tool_executions[k1].result.outcome = None
          /\ "outcome" \notin DOMAIN ret.data.tools[k1].result
          /\ call.experiment.tool_executions[k2].result.cls = "Error"
          /\ call.experiment.tool_executions[k2].result.error_type = "OUT_OF_MEMORY"
          /\ ret.data.tools[k2].result.error = "memory"

(***************************************************************************)
(* The re-execution planner (eval.py, main).                               *)
(***************************************************************************)
\* logger.trace(...): logger is logging.getLogger("main"); the call raises
\* AttributeError unless the Logger object has a trace method.  The class
\* logging.Logger of the standard library has none.
logger_trace(has_trace, then) ==
    IF has_trace THEN then ELSE Raise("AttributeError")

\* Truth value of args.repeat_before (None or a float).
Truthy(x) == x # None /\ x.float # 0

\* The mutant of TimeoutTooShort: a timeout of the same length is repeated too.
TimeoutTooShortOrEqual(r, timeout) ==
    isinstance(r, "Timeout") /\ r.time <= timeout

\* isinstance(r, Timeout) and r.time < timeout
TimeoutTooShort(r, timeout) ==
    isinstance(r, "Timeout") /\ r.time < timeout

\* should_execute(i, t, e), a closure of main: scope holds the variables of
\* main it reads (args, tool_hashes, image_ages, timeout, and the loop
\* variables instance, experiment and tool) and whether logger has trace.
should_execute(i, t, e, scope) ==
    IF scope.args.force
    THEN logger_trace(scope.logger_has_trace, Return(TRUE))
    ELSE IF e = None \/ unique_key(t) \notin DOMAIN e.tool_executions
    THEN logger_trace(scope.logger_has_trace, Return(TRUE))
    ELSE IF unique_key(scope.tool) \notin DOMAIN e.tool_executions
    THEN Raise("KeyError")
    ELSE LET ex == e.tool_executions[unique_key(scope.tool)]
             r == ex.result
         IN  IF Truthy(scope.args.repeat_before)
                /\ ex.timestamp < scope.args.repeat_before.float
             THEN Return(TRUE)
             ELSE IF ex.tool_hash # scope.tool_hashes[unique_key(t)]
             THEN Return(TRUE)
             ELSE IF ex.timestamp < scope.image_ages[unique_key(t)]
             THEN Return(TRUE)
             ELSE IF TimeoutTooShort(r, scope.timeout)
             THEN Return(TRUE)
             ELSE IF scope.experiment = None
             THEN Raise("AttributeError")
             ELSE IF scope.experiment.input_hash # scope.instance.hash
             THEN Return(TRUE)
             ELSE logger_trace(scope.logger_has_trace, Return(FALSE))

\* The names bound in main when should_execute(instance, tool, experiment)
\* is called from the planning loop.
Scope(args, tool_hashes, image_ages, instance, experiment, tool, has_trace) ==
    [args |-> args, timeout |-> args.timeout, tool_hashes |-> tool_hashes,
     image_ages |-> image_ages, instance |-> instance, experiment |-> experiment,
     tool |-> tool, logger_has_trace |-> has_trace]

(***************************************************************************)
(* should_execute on one pair and a synthetic prior Experiment.            *)
(***************************************************************************)
Float(x) == [float |-> x]
Timeouts == 1..MaxDuration
RepeatBefores == {None} \cup {Float(x) : x \in Timestamps}

Args(force, repeat_before, timeout, memory) ==
    [force |-> force, repeat_before |-> repeat_before, timeout |-> timeout,
     memory |-> memory]

PlanResults ==
    {Timeout(Str(StdoutEmpty), Str(StderrEmpty), d) : d \in Durations}
    \cup {Error(Str(StdoutEmpty), Str(StderrValid("1")), d, 1, "GENERIC") : d \in Durations}
    \cup {Termination(Str(StdoutParsable), Str(StderrValid("0")), d,
                      TerminationOutcome(50, "0.25"), 150, 120, 2048) : d \in Durations}

PlanExecutions ==
    {Execution(ts, h, r) : ts \in Timestamps, h \in ToolHashes, r \in PlanResults}

PlanTools == {TOOLS[1], TOOLS[3]}

\* The prior Experiment of the instance: none, one without an Execution of
\* the tool, or one with an Execution of the tool.
PlanExperiments(t) ==
    {None}
    \cup {Experiment("instance", h, <<>>) : h \in InputHashes}
    \cup {Experiment("instance", h, [k \in {unique_key(t)} |-> ex]) :
            h \in InputHashes, ex \in PlanExecutions}

PlanInstance(t) ==
    [key |-> "instance", hash |-> "hash-current"]

PlanInit ==
    /\ ProcessIdle
    /\ \E t \in PlanTools, force, has_trace \in BOOLEAN, rb \in RepeatBefores,
          timeout \in Timeouts, age \in Timestamps :
          \E e \in PlanExperiments(t) :
             call = [i |-> PlanInstance(t), t |-> t, e |-> e,
                     scope |-> Scope(Args(force, rb, timeout, 8192),
                                     [k \in ToolKeys |-> "sha-current"],
                                     [k \in ToolKeys |-> age],
                                     PlanInstance(t), e, t, has_trace)]
    /\ ret = NotReturned

PlanPair ==
    /\ ret = NotReturned
    /\ ret' = [returned |-> TRUE,
               plan |-> should_execute(call.i, call.t, call.e, call.scope)]
    /\ UNCHANGED call
    /\ UNCHANGED process

SpecPlan == PlanInit /\ [][PlanPair]_vars

\* The seven staleness conditions of the pair (call.i, call.t).
HasExecution ==
    call.e # None /\ unique_key(call.t) \in DOMAIN call.e.tool_executions
StoredExecution == call.e.tool_executions[unique_key(call.t)]
Forced == call.scope.args.force
NotExecuted == ~HasExecution
RepeatOld ==
    /\ HasExecution
    /\ call.scope.args.repeat_before # None
    /\ StoredExecution.timestamp < call.scope.args.repeat_before.float
DefinitionChanged ==
    HasExecution /\ StoredExecution.tool_hash # call.scope.tool_hashes[unique_key(call.t)]
ImageNewer ==
    HasExecution /\ StoredExecution.timestamp < call.scope.image_ages[unique_key(call.t)]
ShortTimeout ==
    /\ HasExecution
    /\ StoredExecution.result.cls = "Timeout"
    /\ StoredExecution.result.time < call.scope.args.timeout
InputChanged ==
    call.e # None /\ call.e.input_hash # call.i.hash
Stale ==
    \/ Forced \/ NotExecuted \/ RepeatOld \/ DefinitionChanged
    \/ ImageNewer \/ ShortTimeout \/ InputChanged

\* C1: the planner puts the pair in the work list if and only if at least one
\* of the seven staleness conditions holds, and skips it when all are false.
C1_PlannedIffStale ==
    ret # NotReturned => ret.plan = Return(Stale)

\* C8: with all other staleness conditions false, a stored Timeout is
\* re-planned exactly when its duration is strictly less than the configured
\* timeout, and a stored Error or Termination is never re-planned.
C8_ShortTimeoutOnly ==
    (/\ ret # NotReturned
     /\ ~(Forced \/ NotExecuted \/ RepeatOld \/ DefinitionChanged
          \/ ImageNewer \/ InputChanged))
    => /\ StoredExecution.result.cls = "Timeout"
          => (ret.plan = Return(TRUE)
              <=> StoredExecution.result.time < call.scope.args.timeout)
       /\ StoredExecution.result.cls # "Timeout" => ret.plan # Return(TRUE)

\* A stored Timeout of duration 1 has been planned under a timeout of 2, all
\* other conditions being false.
C8_Witness ==
    /\ ret # NotReturned
    /\ ~(Forced \/ NotExecuted \/ RepeatOld \/ DefinitionChanged
          \/ ImageNewer \/ InputChanged)
    /\ StoredExecution.result.cls = "Timeout"
    /\ StoredExecution.result.time = 1
    /\ call.scope.args.timeout = 2
    /\ ret.plan = Return(TRUE)

(***************************************************************************)
(* run(client, tool, instance, memory, timeout), step by step.  Each call  *)
(* of the backend is one step; the backend answers it ("ok"), fails with   *)
(* a transport failure (requests ReadTimeout / ConnectionError, here       *)
(* "ConnectionError") or with docker.errors.APIError, or the call is cut   *)
(* short by a KeyboardInterrupt.  run is called by main's loop (pc "run")  *)
(* or on its own (pc "call").                                              *)
(***************************************************************************)
BackendOutcomes == {"ok", "ConnectionError", "APIError", "KeyboardInterrupt"}

\* The answers the next call can get: at most MaxDisturbances calls of one
\* invocation of the program fail or are interrupted.
PossibleOutcomes ==
    IF history.disturbances < MaxDisturbances THEN BackendOutcomes ELSE {"ok"}

CurrentTool == IF pc = "call" THEN call.tool ELSE to_execute[idx][2]
CurrentTimeout == IF pc = "call" THEN call.timeout ELSE config.args.timeout
CurrentMemory == IF pc = "call" THEN call.memory ELSE config.args.memory

\* The calls made on the container so far, each with the backend's answer.
Call(op, outcome) == [op |-> op, outcome |-> outcome]
Called(op, o) == [sandbox EXCEPT !.calls = Append(@, Call(op, o))]

\* Where the first interrupt of the invocation was delivered: the call it
\* cut short (or "parser"), the containers created by then, and whether one
\* was in flight.
Interrupt(phase) ==
    [phase |-> phase, created |-> created, in_flight |-> sandbox # NoSandbox]

Noted(o) ==
    [history EXCEPT
        !.interrupted = @ \/ o = "KeyboardInterrupt",
        !.failed = @ \cup ({o} \cap {"ConnectionError", "APIError"}),
        !.disturbances = IF o = "ok" THEN @ ELSE @ + 1,
        !.interrupt = IF o = "KeyboardInterrupt" /\ @ = None THEN Interrupt(rpc) ELSE @]

\* An interrupt is delivered inside tool.parse_outcome.
NotedInParser ==
    [Noted("KeyboardInterrupt") EXCEPT
        !.interrupt = IF history.interrupt = None THEN Interrupt("parser") ELSE @]

Ops == [n \in 1..Len(sandbox.calls) |-> sandbox.calls[n].op]
Answers == [n \in 1..Len(sandbox.calls) |-> sandbox.calls[n].outcome]

\* The calls of the finally clause: from the first kill on.
CleanupFrom == CHOOSE n \in 1..(Len(Ops) + 1) :
                  /\ n <= Len(Ops) => Ops[n] = "kill"
                  /\ \A m \in 1..(n - 1) : Ops[m] # "kill"
Cleanup == SubSeq(Ops, CleanupFrom, Len(Ops))

\* A call of the try block (or of its first except clause) has been
\* answered: beside what Noted keeps, the point at which the backend
\* reported an API error.
NotedInTry(o) ==
    [Noted(o) EXCEPT !.fatal =
        IF o = "APIError"
        THEN [idx |-> idx, created |-> created, recorded |-> Len(history.recorded)]
        ELSE @]

\* The mutant of Leave: main's loop catches SystemExit like an interrupt,
\* and goes to the save.
LeaveSavingOnExit(p) ==
    /\ rpc' = "idle"
    /\ IF ~Raised(p)
       THEN /\ pc' = IF pc = "call" THEN "returned" ELSE "record"
            /\ frame' = [pending |-> None, result |-> p.value]
            /\ exc' = exc
       ELSE /\ frame' = NoFrame
            /\ IF pc = "call" THEN pc' = "raised" /\ exc' = p.raise
               ELSE IF p.raise \in {"KeyboardInterrupt", "SystemExit"}
               THEN pc' = "save" /\ exc' = exc
               ELSE pc' = "crashed" /\ exc' = p.raise

\* Control leaves run with the pending return value or exception p: to the
\* caller of a call of run on its own, else to main's loop, where a
\* KeyboardInterrupt is caught (except KeyboardInterrupt: ... then the save),
\* and any other exception, SystemExit included, ends main.
Leave(p) ==
    /\ rpc' = "idle"
    /\ IF ~Raised(p)
       THEN /\ pc' = IF pc = "call" THEN "returned" ELSE "record"
            /\ frame' = [pending |-> None, result |-> p.value]
            /\ exc' = exc
       ELSE /\ frame' = NoFrame
            /\ IF pc = "call" THEN pc' = "raised" /\ exc' = p.raise
               ELSE IF p.raise = "KeyboardInterrupt" THEN pc' = "save" /\ exc' = exc
               ELSE IF p.raise = "SystemExit" THEN pc' = "exited" /\ exc' = p.raise
               ELSE pc' = "crashed" /\ exc' = p.raise

\* The script of a container: the exit status and the logs its process
\* will have produced.
Script(exit_code, stdout, stderr) ==
    [exit_code |-> exit_code, stdout |-> stdout, stderr |-> stderr]

\* The mutant of MemoryAboveFloor: any positive limit is accepted.
MemoryPositive(memory) == memory > 0

\* assert memory > 1024
MemoryAboveFloor(memory) == memory > 1024

\* PRISMGames.get_invocation: "-javamaxmem", f"{memory_limit - 128}m"
PRISM_javamaxmem(memory_limit) == memory_limit - 128

\* environment={"JAVA_OPTS": f"-Xmx{memory - 128}m"}, beside mem_limit=f"{memory}m"
JavaHeap(memory) == memory - 128

\* Lines 96-134: the assertion, tool.get_invocation and containers.create.
\* o is "KeyboardInterrupt" or "ok"; script is what the container will do.
Enter(o, script) ==
    /\ rpc = "idle"
    /\ IF o = "KeyboardInterrupt"
       THEN /\ Leave(Raise("KeyboardInterrupt"))
            /\ UNCHANGED <<sandbox, created>>
       ELSE IF ~MemoryAboveFloor(CurrentMemory)
       THEN /\ Leave(Raise("AssertionError"))
            /\ UNCHANGED <<sandbox, created>>
       ELSE IF ~AcceptsMemoryArgument(CurrentTool)
       THEN /\ Leave(Raise("TypeError"))
            /\ UNCHANGED <<sandbox, created>>
       ELSE /\ sandbox' = [calls |-> <<Call("create", "ok")>>, exit_code |-> script.exit_code,
                           stdout |-> script.stdout, stderr |-> script.stderr,
                           removed |-> FALSE,
                           mem_limit |-> CurrentMemory,
                           heap |-> JavaHeap(CurrentMemory),
                           javamaxmem |-> PRISM_javamaxmem(CurrentMemory)]
            /\ created' = created + 1
            /\ rpc' = "start"
            /\ pc' = IF pc = "call" THEN "call" ELSE "run"
            /\ UNCHANGED <<frame, exc>>
    /\ history' = [Noted(o) EXCEPT !.open = IF sandbox' # sandbox THEN @ + 1 ELSE @]

\* The mutant of TryFailed: an API error is handled like a transport failure.
TryFailedApiAsTransport(o) ==
    /\ rpc' = IF o \in {"ConnectionError", "APIError"} THEN "handler" ELSE "kill"
    /\ frame' = [frame EXCEPT !.pending =
                    IF o = "KeyboardInterrupt" THEN Raise("KeyboardInterrupt") ELSE @]

\* Another mutant of TryFailed: a transport failure is raised like any other
\* exception, past the first except clause.
TryFailedTransportRaised(o) ==
    /\ rpc' = "kill"
    /\ frame' = [frame EXCEPT !.pending =
                    IF o = "APIError" THEN Raise("SystemExit") ELSE Raise(o)]

\* A failure inside the try block: the transport failures enter the first
\* except clause, APIError the second (sys.exit(1) raises SystemExit), a
\* KeyboardInterrupt none; the finally clause follows.
TryFailed(o) ==
    /\ rpc' = IF o = "ConnectionError" THEN "handler" ELSE "kill"
    /\ frame' = [frame EXCEPT !.pending =
                    IF o = "APIError" THEN Raise("SystemExit")
                    ELSE IF o = "KeyboardInterrupt" THEN Raise("KeyboardInterrupt")
                    ELSE @]

\* container.start()
Start ==
    /\ pc \in {"run", "call"} /\ rpc = "start"
    /\ \E o \in PossibleOutcomes :
          /\ sandbox' = Called("start", o)
          /\ history' = NotedInTry(o)
          /\ IF o = "ok" THEN rpc' = "wait" /\ UNCHANGED frame ELSE TryFailed(o)
    /\ UNCHANGED <<call, ret, pc, exc, config, file, experiments, to_execute, idx,
                   created, now, rerun>>

\* response = container.wait(timeout=timeout + 5)
Wait ==
    /\ pc \in {"run", "call"} /\ rpc = "wait"
    /\ \E o \in PossibleOutcomes :
          /\ sandbox' = Called("wait", o)
          /\ history' = NotedInTry(o)
          /\ IF o = "ok" THEN rpc' = "logs" /\ UNCHANGED frame ELSE TryFailed(o)
    /\ UNCHANGED <<call, ret, pc, exc, config, file, experiments, to_execute, idx,
                   created, now, rerun>>

\* The durations time.time() - start can give: any for run called on its
\* own, the shortest and the longest for the runs of main's loop.
CurrentDurations == IF pc = "call" THEN Durations ELSE {0, MaxDuration}

\* The wall-clock durations a run with this exit code can have taken: exit
\* code 124 is /usr/bin/timeout ending the tool after timeout + 1 seconds.
PossibleDurations(exit_code, timeout) ==
    {d \in CurrentDurations : exit_code = 124 => d > timeout}

\* The two container.logs calls of the try block, their decoding (a
\* UnicodeDecodeError is caught by neither except clause), and the
\* derivation of the Result that follows (lines 140-186).
Logs ==
    /\ pc \in {"run", "call"} /\ rpc = "logs"
    /\ \E o \in PossibleOutcomes :
          /\ sandbox' = Called("logs", o)
          /\ IF o = "ok"
             THEN LET stdout == decode(Bytes(sandbox.stdout))
                      stderr == decode(Bytes(sandbox.stderr))
                  IN  IF Raised(stdout) \/ Raised(stderr)
                      THEN /\ frame' = [frame EXCEPT !.pending =
                                  Raise("UnicodeDecodeError")]
                           /\ rpc' = "kill"
                           /\ history' = history
                      ELSE \E d \in PossibleDurations(sandbox.exit_code, CurrentTimeout),
                              interrupted \in BOOLEAN :
                              /\ interrupted =>
                                    /\ ReachesParser(sandbox.exit_code, stderr.value)
                                    /\ "KeyboardInterrupt" \in PossibleOutcomes
                              /\ frame' = [frame EXCEPT !.pending =
                                    Return(DeriveResult(CurrentTool, sandbox.exit_code,
                                                        stdout.value, stderr.value,
                                                        d, interrupted))]
                              /\ rpc' = "kill"
                              /\ history' = IF interrupted THEN NotedInParser
                                             ELSE Noted("ok")
             ELSE TryFailed(o) /\ history' = NotedInTry(o)
    /\ UNCHANGED <<call, ret, pc, exc, config, file, experiments, to_execute, idx,
                   created, now, rerun>>

\* The first except clause (lines 187-190): the logs are read again, not
\* decoded, and a Timeout is returned.  A failure of these calls is raised
\* from the handler.
Handler ==
    /\ pc \in {"run", "call"} /\ rpc = "handler"
    /\ \E o \in PossibleOutcomes :
          /\ sandbox' = Called("logs", o)
          /\ history' = NotedInTry(o)
          /\ rpc' = "kill"
          /\ IF o = "ok"
             THEN \E d \in CurrentDurations :
                     frame' = [frame EXCEPT !.pending =
                         Return(Timeout(Bytes(sandbox.stdout), Bytes(sandbox.stderr), d))]
             ELSE frame' = [frame EXCEPT !.pending = Raise(o)]
    /\ UNCHANGED <<call, ret, pc, exc, config, file, experiments, to_execute, idx,
                   created, now, rerun>>

\* finally: try: container.kill() except docker.errors.APIError: pass
KillCaught(o) == o = "APIError"

\* try: container.wait(timeout=10) except (APIError, ReadTimeout, ConnectionError)
SettleCaught(o) == o \in {"APIError", "ConnectionError"}

\* try: container.remove() except docker.errors.APIError: logger.warning(...)
RemoveCaught(o) == o = "APIError"

\* The mutant of CleanupRaised: the exception is dropped, and with it the
\* rest of the finally clause.
CleanupSkipped(e) ==
    /\ rpc' = "leave"
    /\ frame' = frame

\* The finally clause is left with exception e: it replaces whatever the try
\* block had pending.
CleanupRaised(e) ==
    /\ rpc' = "leave"
    /\ frame' = [frame EXCEPT !.pending = Raise(e)]

Kill ==
    /\ pc \in {"run", "call"} /\ rpc = "kill"
    /\ \E o \in PossibleOutcomes :
          /\ sandbox' = Called("kill", o)
          /\ history' = Noted(o)
          /\ IF o = "ok" \/ KillCaught(o)
             THEN rpc' = "settle" /\ UNCHANGED frame
             ELSE CleanupRaised(o)
    /\ UNCHANGED <<call, ret, pc, exc, config, file, experiments, to_execute, idx,
                   created, now, rerun>>

Settle ==
    /\ pc \in {"run", "call"} /\ rpc = "settle"
    /\ \E o \in PossibleOutcomes :
          /\ sandbox' = Called("wait", o)
          /\ history' = Noted(o)
          /\ IF o = "ok" \/ SettleCaught(o)
             THEN rpc' = "remove" /\ UNCHANGED frame
             ELSE CleanupRaised(o)
    /\ UNCHANGED <<call, ret, pc, exc, config, file, experiments, to_execute, idx,
                   created, now, rerun>>

\* The last step of the finally clause.
Remove ==
    /\ pc \in {"run", "call"} /\ rpc = "remove"
    /\ \E o \in PossibleOutcomes :
          /\ sandbox' = [Called("remove", o) EXCEPT !.removed = (o = "ok")]
          /\ history' = [Noted(o) EXCEPT !.open = @ - 1]
          /\ IF o = "ok" \/ RemoveCaught(o)
             THEN rpc' = "leave" /\ UNCHANGED frame
             ELSE CleanupRaised(o)
    /\ UNCHANGED <<call, ret, pc, exc, config, file, experiments, to_execute, idx,
                   created, now, rerun>>

\* The finally clause is done: the pending return value or exception takes
\* effect, and the container object goes out of scope.
RunLeave ==
    /\ pc \in {"run", "call"} /\ rpc = "leave"
    /\ Leave(frame.pending)
    /\ sandbox' = NoSandbox
    /\ history' = [history EXCEPT !.cleanup = Cleanup]
    /\ UNCHANGED <<call, ret, config, file, experiments, to_execute, idx,
                   created, now, rerun>>

(***************************************************************************)
(* run called on its own, on any configured tool and any logs.             *)
(***************************************************************************)
RunTimeouts == 1..(MaxDuration - 1)

\* Memory limits in MB: below and at the floor, the first above it, and the
\* default of --memory.
RunMemories == {128, 1024, 1025, 8 * 1024}
Scripts == {Script(c, out, err) : c \in ExitCodes, out \in Stdouts, err \in Stderrs}

RunInit ==
    /\ \E tool \in ToolSet, memory \in RunMemories, timeout \in RunTimeouts,
          script \in Scripts :
          call = [tool |-> tool, memory |-> memory, timeout |-> timeout,
                  script |-> script]
    /\ ret = NotReturned
    /\ pc = "call" /\ exc = "" /\ config = None /\ file = None
    /\ experiments = EmptyDict /\ to_execute = <<>> /\ idx = 0 /\ rpc = "idle"
    /\ frame = NoFrame /\ sandbox = NoSandbox /\ created = 0 /\ now = 0
    /\ rerun = FALSE /\ history = NoHistory

RunCall ==
    /\ pc = "call"
    /\ \E o \in {"ok", "KeyboardInterrupt"} \cap PossibleOutcomes :
          Enter(o, call.script)
    /\ UNCHANGED <<call, ret, config, file, experiments, to_execute, idx, now, rerun>>

RunNext ==
    \/ RunCall \/ Start \/ Wait \/ Logs \/ Handler
    \/ Kill \/ Settle \/ Remove \/ RunLeave

SpecRun == RunInit /\ [][RunNext]_vars

\* run is about to return to or raise into its caller, after the finally
\* clause on the container it created.
RunLeft == rpc = "leave"
Returns == ~Raised(frame.pending)

\* The backend answered every call and no interrupt was delivered.
Undisturbed ==
    /\ \A n \in 1..Len(sandbox.calls) : Answers[n] = "ok"
    /\ ~history.interrupted

CleanupInterrupted ==
    \E n \in CleanupFrom..Len(Ops) : Answers[n] = "KeyboardInterrupt"

\* C4: once a container has been created, whichever way the try block ends,
\* run calls kill, then the settle-wait, then remove, in this order; a backend
\* failure of one of them, of whatever kind, does not skip the ones after it,
\* and a failure of remove is not raised to the caller of run.
C4_CleanupAlwaysComplete ==
    (RunLeft /\ ~CleanupInterrupted) =>
        /\ Cleanup = <<"kill", "wait", "remove">>
        /\ Answers[Len(Ops)] # "ok" => frame.pending # Raise(Answers[Len(Ops)])

\* What does hold of the finally clause: the three calls are made in order
\* unless kill or the settle-wait is ended by a failure that its except
\* clause does not name.
C4_CleanupUnlessUncaught ==
    (RunLeft /\ ~CleanupInterrupted) =>
        \/ Cleanup = <<"kill", "wait", "remove">>
        \/ /\ Cleanup = <<"kill">>
           /\ Answers[Len(Ops)] = "ConnectionError"
           /\ frame.pending = Raise("ConnectionError")

\* C5: whenever the container's exit code is 124 or 137, run returns a
\* Timeout, whatever the bytes of stdout and stderr are.
C5_TimeoutCodeGivesTimeout ==
    (RunLeft /\ Undisturbed /\ sandbox.exit_code \in {124, 137}) =>
        /\ Returns
        /\ isinstance(frame.pending.value, "Timeout")

\* What does hold: on logs that are valid UTF-8, these exit codes give a
\* Timeout carrying the decoded logs.
C5_TimeoutCodeOnDecodable ==
    (/\ RunLeft /\ Undisturbed /\ sandbox.exit_code \in {124, 137}
     /\ sandbox.stdout # Undecodable /\ sandbox.stderr # Undecodable) =>
        /\ Returns
        /\ isinstance(frame.pending.value, "Timeout")
        /\ frame.pending.value.output = Str(sandbox.stdout)
        /\ frame.pending.value.error = Str(sandbox.stderr)

\* The last line of the captured stderr parses as (int, float, float, int).
RecordParses(stderr_lines) ==
    /\ stderr_lines # <<>>
    /\ ~Raised(ParseTimeData(stderr_lines[Len(stderr_lines)]))

\* The class of a Result, with the type and exit code of an Error.
Kind(r) == IF isinstance(r, "Error") THEN <<r.cls, r.error_type, r.code>>
           ELSE <<r.cls>>

\* C6: for an exit code other than 124 and 137, when the captured stderr has
\* fewer than two lines or its last line does not parse as (int, float,
\* float, int), run returns Error of type OUTPUT with the container's exit
\* code and does not raise; and the exit code written in the measurement
\* record does not change the Result.
C6_BadRecordGivesOutputError ==
    (RunLeft /\ Undisturbed /\ sandbox.exit_code \notin {124, 137}) =>
        /\ (Len(sandbox.stderr) < 2 \/ ~RecordParses(sandbox.stderr)) =>
              /\ Returns
              /\ Kind(frame.pending.value) = <<"Error", "OUTPUT", sandbox.exit_code>>
        /\ \A x \in {"0", "1"} :
              (sandbox.stderr = StderrValid(x) /\ Returns) =>
                 \A y \in {"0", "1"} :
                    Kind(frame.pending.value) =
                       Kind(DeriveResult(call.tool, sandbox.exit_code,
                                         Str(sandbox.stdout), Str(StderrValid(y)),
                                         frame.pending.value.time, FALSE))

\* What does hold: the same, on logs that are valid UTF-8.
C6_BadRecordOnDecodable ==
    (/\ RunLeft /\ Undisturbed /\ sandbox.exit_code \notin {124, 137}
     /\ sandbox.stdout # Undecodable /\ sandbox.stderr # Undecodable) =>
        /\ Returns
        /\ (Len(sandbox.stderr) < 2 \/ ~RecordParses(sandbox.stderr)) =>
              Kind(frame.pending.value) = <<"Error", "OUTPUT", sandbox.exit_code>>

\* The captured stderr holds a command line and a measurement record that
\* parses.
ValidRecord(stderr_lines) ==
    /\ stderr_lines # Undecodable
    /\ Len(stderr_lines) >= 2 /\ RecordParses(stderr_lines)

\* What C20 says of the Result r of a run with the given exit code and
\* logs: Error with the exit code and the classifier's type for a non-zero
\* code; for code 0 a Termination with the parser's outcome and the measured
\* values, or Error of type OUTPUT when the parser raises (an interrupt
\* delivered inside the parser is raised by it).
ResultByExitCode(r, tool, exit_code, stdout, stderr, parser_interrupted) ==
    LET measured == ParseTimeData(stderr.str[Len(stderr.str)]).value
        outcome == parse_outcome(tool, stdout, stderr)
    IN  /\ r.output = stdout /\ r.error = stderr
        /\ IF exit_code # 0
           THEN Kind(r) = <<"Error", recognize_error(stdout, stderr, exit_code, tool),
                           exit_code>>
           ELSE IF Raised(outcome) \/ parser_interrupted
           THEN Kind(r) = <<"Error", "OUTPUT", 0>>
           ELSE /\ isinstance(r, "Termination")
                /\ r.outcome = outcome.value
                /\ r.wall_time = measured[2] /\ r.user_time = measured[3]
                /\ r.resident_size = measured[4]
        /\ isinstance(r, "Termination") => exit_code = 0
        /\ (isinstance(r, "Error") /\ r.code = 0) => r.error_type = "OUTPUT"

\* C20: when the exit code is neither 124 nor 137 and the measurement
\* record is valid (and the backend has answered every call), run returns
\* the Result the exit code decides: see ResultByExitCode.
C20_ExitCodeDecidesResult ==
    (/\ RunLeft /\ \A n \in 1..Len(Answers) : Answers[n] = "ok"
     /\ sandbox.exit_code \notin {124, 137} /\ ValidRecord(sandbox.stderr)) =>
        /\ Returns
        /\ ResultByExitCode(frame.pending.value, call.tool, sandbox.exit_code,
                            Str(sandbox.stdout), Str(sandbox.stderr),
                            history.interrupted)

\* What does hold: the same, when moreover the captured stdout is valid
\* UTF-8.
C20_ExitCodeDecidesOnDecodable ==
    (/\ RunLeft /\ \A n \in 1..Len(Answers) : Answers[n] = "ok"
     /\ sandbox.exit_code \notin {124, 137} /\ ValidRecord(sandbox.stderr)
     /\ sandbox.stdout # Undecodable) =>
        /\ Returns
        /\ ResultByExitCode(frame.pending.value, call.tool, sandbox.exit_code,
                            Str(sandbox.stdout), Str(sandbox.stderr),
                            history.interrupted)

\* C18: run rejects a memory limit of 1024 MB or less before it asks the
\* tool for an invocation (also for the tools whose get_invocation would
\* refuse the call) and before it creates a container: no container is ever
\* created, and unless an interrupt came first run raises AssertionError.
\* A container that has been created has a limit above 1024 MB as its
\* memory ceiling, and the Java heap given to the tool (JAVA_OPTS and
\* -javamaxmem) is the limit minus 128 MB, positive and below that ceiling.
C18_MemoryFloorAndHeap ==
    /\ call.memory <= 1024 =>
          /\ created = 0 /\ sandbox = NoSandbox
          /\ pc \in {"call", "raised"}
          /\ pc = "raised" => exc \in {"AssertionError", "KeyboardInterrupt"}
          /\ (pc = "raised" /\ ~history.interrupted) => exc = "AssertionError"
    /\ sandbox # NoSandbox =>
          /\ call.memory > 1024
          /\ sandbox.mem_limit = call.memory
          /\ sandbox.heap = call.memory - 128
          /\ sandbox.javamaxmem = sandbox.heap
          /\ 0 < sandbox.heap /\ sandbox.heap < sandbox.mem_limit

\* run has refused the limit of exactly 1024 MB, for a tool whose
\* get_invocation does not take the memory argument.
C18_Witness ==
    /\ pc = "raised" /\ exc = "AssertionError" /\ created = 0
    /\ call.memory = 1024 /\ ~AcceptsMemoryArgument(call.tool)

(***************************************************************************)
(* main(args): the store is loaded, the pairs are planned, each planned    *)
(* pair is run and its Execution recorded, the store is saved.  The file   *)
(* is args.data under its default name data.json: None when it does not    *)
(* exist, else the decoded JSON list, or PartialFile for text that is not   *)
(* a JSON document.                                                        *)
(***************************************************************************)
StoreFile(data) == [data |-> data]
PartialFile == [partial |-> TRUE]

\* Lines 236-244
Load ==
    /\ pc = "load"
    /\ IF file = None
       THEN /\ experiments' = EmptyDict
            /\ pc' = "images" /\ exc' = exc
       ELSE IF file = PartialFile
       THEN /\ experiments' = experiments
            /\ pc' = "crashed" /\ exc' = "JSONDecodeError"
       ELSE LET stored_experiments == {Experiment_parse(d) : d \in file.data}
            IN  IF \E e \in stored_experiments : Raised(e)
                THEN /\ experiments' = experiments
                     /\ pc' = "crashed" /\ exc' = "KeyError"
                ELSE /\ experiments' =
                           [k \in {e.instance_key : e \in stored_experiments} |->
                               CHOOSE e \in stored_experiments : e.instance_key = k]
                     /\ pc' = "images" /\ exc' = exc
    /\ history' = [history EXCEPT !.loaded = experiments', !.file_at_start = file]
    /\ UNCHANGED <<call, ret, config, file, to_execute, idx, rpc, frame, sandbox,
                   created, now, rerun>>

\* An image of the backend's list: its tags and its attribute "Created",
\* as the timestamp dateutil.parser.isoparse reads from it.
Image(tags, Created) == [tags |-> tags, Created |-> Created]

\* The mutant of ImagesMissing: the check fails only when no tool has been
\* given an image.
ImagesMissingForAll(required_tags, tool_image_ages) ==
    required_tags # {} /\ DOMAIN tool_image_ages = {}

\* if required_tags: raise KeyError(...)
ImagesMissing(required_tags, tool_image_ages) == required_tags # {}

\* The loop of check_docker_images over client.images.list(): a tag that is
\* still required is popped, and its tools get the image's creation time.
RECURSIVE ImagesLoop(_, _, _)
ImagesLoop(images, required_tags, tool_image_ages) ==
    IF images = <<>>
    THEN IF ImagesMissing(required_tags, tool_image_ages) THEN Raise("KeyError")
         ELSE Return(tool_image_ages)
    ELSE LET image == Head(images)
             popped == {image.tags[n] : n \in 1..Len(image.tags)} \cap required_tags
             tools == {unique_key(t) : t \in {t \in ToolSet : docker_image_name(t) \in popped}}
         IN  ImagesLoop(Tail(images), required_tags \ popped,
                        [k \in DOMAIN tool_image_ages \cup tools |->
                            IF k \in tools THEN image.Created ELSE tool_image_ages[k]])

check_docker_images(images, tools) ==
    ImagesLoop(images, {docker_image_name(t) : t \in tools}, EmptyDict)

\* Lines 255-256: image_ages = check_docker_images(client, TOOLS)
CheckImages ==
    /\ pc = "images"
    /\ LET image_ages == check_docker_images(config.images, ToolSet)
       IN  IF Raised(image_ages)
           THEN pc' = "crashed" /\ exc' = image_ages.raise /\ config' = config
           ELSE /\ pc' = "plan" /\ exc' = exc
                /\ config' = [config EXCEPT !.image_ages = image_ages.value]
    /\ UNCHANGED <<call, ret, file, experiments, to_execute, idx, rpc, frame,
                   sandbox, created, now, rerun, history>>

\* experiments.get(instance.key, None)
experiments_get(key) == IF key \in DOMAIN experiments THEN experiments[key] ELSE None

\* The planning loop over TOOLS for one instance (lines 299-305), from the
\* n-th tool on: the pairs appended to to_execute, or the exception raised
\* by should_execute.
RECURSIVE PlanTools_from(_, _, _)
PlanTools_from(n, instance, planned) ==
    IF n > Len(TOOLS) THEN Return(planned)
    ELSE LET tool == TOOLS[n]
             experiment == experiments_get(instance.key)
             decision == should_execute(instance, tool, experiment,
                            Scope(config.args, config.tool_hashes, config.image_ages,
                                  instance, experiment, tool, config.logger_has_trace))
         IN  IF Raised(decision) THEN decision
             ELSE PlanTools_from(n + 1, instance,
                     IF decision.value THEN Append(planned, <<instance, tool>>)
                     ELSE planned)

\* The mutant of Plan: an empty work list leads to the save.
PlanSavingWhenEmpty ==
    /\ pc = "plan"
    /\ LET planned == PlanTools_from(1, config.instance, <<>>)
       IN  IF Raised(planned)
           THEN pc' = "crashed" /\ exc' = planned.raise /\ UNCHANGED <<to_execute, idx>>
           ELSE IF planned.value = <<>>
           THEN pc' = "save" /\ UNCHANGED <<exc, to_execute, idx>>
           ELSE pc' = "run" /\ to_execute' = planned.value /\ idx' = 1 /\ exc' = exc
    /\ UNCHANGED <<call, ret, config, file, experiments, rpc, frame, sandbox,
                   created, now, rerun, history>>

\* Lines 299-310
Plan ==
    /\ pc = "plan"
    /\ LET planned == PlanTools_from(1, config.instance, <<>>)
       IN  IF Raised(planned)
           THEN pc' = "crashed" /\ exc' = planned.raise /\ UNCHANGED <<to_execute, idx>>
           ELSE IF planned.value = <<>>
           THEN pc' = "nothing" /\ UNCHANGED <<exc, to_execute, idx>>
           ELSE pc' = "run" /\ to_execute' = planned.value /\ idx' = 1 /\ exc' = exc
    /\ UNCHANGED <<call, ret, config, file, experiments, rpc, frame, sandbox,
                   created, now, rerun, history>>

\* The containers of the main specification.
MainScripts ==
    {Script(0, StdoutParsable, StderrValid("0")),
     Script(1, StdoutEmpty, StderrValid("1")),
     Script(124, StdoutNoResult, StderrEmpty)}

\* result = run(client, tool, instance, args.memory, args.timeout), up to
\* the creation of the container; an interrupt may come first.
RunEnter ==
    /\ pc = "run"
    /\ \E o \in {"ok", "KeyboardInterrupt"} \cap PossibleOutcomes,
          script \in MainScripts : Enter(o, script)
    /\ UNCHANGED <<call, ret, config, file, experiments, to_execute, idx, now, rerun>>

\* Lines 346-351: the Execution is stored under the pair; an Experiment is
\* created for an instance key that has none.
Record ==
    /\ pc = "record"
    /\ LET instance == to_execute[idx][1]
           tool == to_execute[idx][2]
           execution == Execution(now, config.tool_hashes[unique_key(tool)],
                                  frame.result)
           e == IF instance.key \in DOMAIN experiments
                THEN experiments[instance.key]
                ELSE Experiment(instance.key, instance.hash, <<>>)
           tool_executions ==
               [k \in DOMAIN e.tool_executions \cup {unique_key(tool)} |->
                   IF k = unique_key(tool) THEN execution ELSE e.tool_executions[k]]
       IN  /\ experiments' =
                 [k \in DOMAIN experiments \cup {instance.key} |->
                     IF k = instance.key
                     THEN [e EXCEPT !.tool_executions = tool_executions]
                     ELSE experiments[k]]
           /\ history' = [history EXCEPT !.recorded =
                             Append(@, <<instance.key, unique_key(tool), execution>>)]
    /\ \E t \in {now, now + 1} : t <= MaxTime /\ now' = t
    /\ IF idx < Len(to_execute)
       THEN pc' = "run" /\ idx' = idx + 1
       ELSE pc' = "save" /\ idx' = idx
    /\ frame' = NoFrame
    /\ UNCHANGED <<call, ret, exc, config, file, to_execute, rpc, sandbox, created,
                   rerun>>

\* json.dump accepts str, numbers, dicts and lists; a bytes value makes it
\* raise TypeError.
Serializable(result) ==
    "bytes" \notin DOMAIN result.output /\ "bytes" \notin DOMAIN result.error

\* Lines 355-358: the file is opened for writing, which empties it, and the
\* store is dumped into it.
Save ==
    /\ pc = "save"
    /\ IF \A k \in DOMAIN experiments :
             \A t \in DOMAIN experiments[k].tool_executions :
                Serializable(experiments[k].tool_executions[t].result)
       THEN /\ file' = StoreFile({Experiment_to_json(experiments[k]) :
                                     k \in DOMAIN experiments})
            /\ pc' = "done" /\ exc' = exc
       ELSE /\ file' = PartialFile
            /\ pc' = "crashed" /\ exc' = "TypeError"
    /\ history' = [history EXCEPT !.save_reached = TRUE]
    /\ UNCHANGED <<call, ret, config, experiments, to_execute, idx, rpc, frame,
                   sandbox, created, now, rerun>>

\* The program is started again on the file it has saved, with the same
\* arguments, instance files, tool definitions and images.
Rerun ==
    /\ pc = "done" /\ ~rerun
    /\ rerun' = TRUE
    /\ pc' = "load" /\ exc' = ""
    /\ experiments' = EmptyDict /\ to_execute' = <<>> /\ idx' = 0
    /\ rpc' = "idle" /\ frame' = NoFrame /\ sandbox' = NoSandbox /\ created' = 0
    /\ history' = [NoHistory EXCEPT !.previous =
                      [file_at_start |-> history.file_at_start,
                       disturbances |-> history.disturbances]]
    /\ UNCHANGED <<call, ret, config, file, now>>

(***************************************************************************)
(* The configurations and prior stores of the main specification.          *)
(***************************************************************************)
TheInstance == [key |-> "instance", hash |-> "hash-current"]

FreshResult ==
    Termination(Str(StdoutParsable), Str(StderrValid("0")), 1,
                TerminationOutcome(50, "0.25"), 150, 120, 2048)

\* A stored Execution that the planner finds up to date, and ones it finds
\* stale: of another definition hash, a Timeout of duration 0, and one
\* older than a newer image or than repeat_before.
StoredExecutions ==
    [fresh |-> Execution(1, "sha-current", FreshResult),
     hash |-> Execution(1, "sha-previous", FreshResult),
     timeout |-> Execution(1, "sha-current", Timeout(Str(StdoutEmpty), Str(StderrEmpty), 0)),
     old |-> Execution(0, "sha-current", FreshResult)]
StaleKinds == {"absent", "hash", "timeout", "old"}

\* The stale pairs of a prior store: the tools and what makes them stale.
StalePairs ==
    {<<{}, "absent">>,
     <<{unique_key(TOOLS[1])}, "absent">>,
     <<{unique_key(TOOLS[8])}, "absent">>,
     <<{unique_key(TOOLS[3]), unique_key(TOOLS[4])}, "absent">>}
    \cup {<<{unique_key(TOOLS[3])}, kind>> : kind \in StaleKinds}

PriorExperiment(input_hash, stale, kind) ==
    Experiment("instance", input_hash,
               [k \in (IF kind = "absent" THEN ToolKeys \ stale ELSE ToolKeys) |->
                   IF k \in stale THEN StoredExecutions[kind]
                   ELSE StoredExecutions.fresh])

\* What a store keeps of a configuration of the past: the Experiment of an
\* instance that is no longer configured, and for the configured instance
\* the Execution of a tool key that no configured tool has.
RetiredExperiment ==
    Experiment("retired-instance", "hash-retired",
               [k \in {"pet"} |-> StoredExecutions.old])
WithRetiredTool(experiment) ==
    [experiment EXCEPT !.tool_executions =
        [k \in DOMAIN @ \cup {"retired-tool"} |->
            IF k = "retired-tool" THEN StoredExecutions.old ELSE @[k]]]

PriorFiles ==
    {None, StoreFile({})}
    \cup {StoreFile({Experiment_to_json(PriorExperiment(h, sk[1], sk[2]))}) :
            h \in InputHashes, sk \in StalePairs}
    \cup {StoreFile({Experiment_to_json(RetiredExperiment),
                     Experiment_to_json(WithRetiredTool(
                         PriorExperiment("hash-current", sk[1], sk[2])))}) :
            sk \in {<<{unique_key(TOOLS[3]), unique_key(TOOLS[4])}, "absent">>,
                    <<{unique_key(TOOLS[3])}, "timeout">>}}

\* The images the backend lists: one for each required name, created at
\* the given time, beside one that no tool requires; or the same without
\* the image of one name.
ImageNames == {docker_image_name(t) : t \in ToolSet}
ImageList(names, age) ==
    <<Image(<<"ubuntu:latest">>, 0)>>
    \o (IF "pet:latest" \in names THEN <<Image(<<"pet:latest">>, age)>> ELSE <<>>)
    \o (IF "prism-games:latest" \in names
        THEN <<Image(<<"prism-games:latest", "prism-games:3.2">>, age)>> ELSE <<>>)
    \o (IF "prism-games-extensions:latest" \in names
        THEN <<Image(<<"prism-games-extensions:latest">>, age)>> ELSE <<>>)
    \o (IF "tempest:latest" \in names THEN <<Image(<<"tempest:latest">>, age)>> ELSE <<>>)
ImageLists(age) ==
    {ImageList(ImageNames, age)}
    \cup {ImageList(ImageNames \ {name}, age) : name \in ImageNames}

Config(args, has_trace, images) ==
    [args |-> args, logger_has_trace |-> has_trace,
     tool_hashes |-> [k \in ToolKeys |-> "sha-current"],
     images |-> images, image_ages |-> None, instance |-> TheInstance]

Init ==
    /\ call = None /\ ret = NotReturned
    /\ \E force, has_trace \in BOOLEAN, timeout \in {MaxDuration - 1},
          memory \in {1024, 8192}, age \in {1} :
          \E images \in ImageLists(age) :
             config = Config(Args(force, None, timeout, memory), has_trace, images)
    /\ file \in PriorFiles
    /\ pc = "load" /\ exc = ""
    /\ experiments = EmptyDict /\ to_execute = <<>> /\ idx = 0 /\ rpc = "idle"
    /\ frame = NoFrame /\ sandbox = NoSandbox /\ created = 0 /\ now = 1
    /\ rerun = FALSE /\ history = NoHistory

Next ==
    \/ Load \/ CheckImages \/ Plan \/ RunEnter \/ Start \/ Wait \/ Logs \/ Handler
    \/ Kill \/ Settle \/ Remove \/ RunLeave \/ Record \/ Save \/ Rerun

Spec == Init /\ [][Next]_vars

\* This invocation of the program has ended.
Ended == pc \in {"done", "nothing", "crashed", "exited"}

\* The store the invocation h started from has no Experiment.
FreshStart(h) == h.file_at_start \in {None, StoreFile({})}

\* The Execution the file holds for a pair, as JSON; None when it holds none.
Saved(key, tool_key) ==
    IF file = None \/ file = PartialFile THEN None
    ELSE LET found == {d \in file.data : d.key = key /\ tool_key \in DOMAIN d.tools}
         IN  IF found = {} THEN None ELSE (CHOOSE d \in found : TRUE).tools[tool_key]

\* C2: starting from a store without Experiment for the instance, with no
\* failing call and no interrupt, the run of a pair takes place; a container
\* that exits 0 with parsable output gives a Termination, which is stored
\* for the pair; and the program started again at once with the same
\* arguments, without force, plans nothing.
C2_FreshRunThenEmptyPlan ==
    (/\ ~config.args.force /\ config.args.memory > 1024
     /\ history.disturbances = 0 /\ pc # "load") =>
        /\ (~rerun /\ FreshStart(history)) =>
              /\ pc # "crashed"
              /\ (/\ rpc = "leave" /\ sandbox.exit_code = 0
                  /\ sandbox.stdout = StdoutParsable
                  /\ sandbox.stderr = StderrValid("0")) =>
                    /\ Returns
                    /\ isinstance(frame.pending.value, "Termination")
              /\ pc = "done" =>
                    \A n \in 1..Len(history.recorded) :
                       Saved(history.recorded[n][1], history.recorded[n][2])
                          = Execution_to_json(history.recorded[n][3])
        /\ (/\ rerun /\ FreshStart(history.previous)
            /\ history.previous.disturbances = 0 /\ pc # "plan") =>
              pc = "nothing"

\* C3: when an interrupt has been delivered during the execution loop (and
\* the backend has reported no API error), the invocation ends with the
\* store saved: the file holds every Execution recorded in this invocation,
\* and for every other pair the Execution that was loaded.
C3_InterruptStillSaves ==
    (/\ Ended /\ history.interrupted /\ "APIError" \notin history.failed) =>
        /\ pc = "done"
        /\ \A n \in 1..Len(history.recorded) :
              Saved(history.recorded[n][1], history.recorded[n][2])
                 = Execution_to_json(history.recorded[n][3])
        /\ \A k \in DOMAIN history.loaded :
              \A t \in DOMAIN history.loaded[k].tool_executions :
                 (\A n \in 1..Len(history.recorded) :
                     <<history.recorded[n][1], history.recorded[n][2]>> # <<k, t>>)
                 => Saved(k, t) = Execution_to_json(history.loaded[k].tool_executions[t])

\* What does hold: the same, when moreover no call of the backend has failed.
C3_InterruptSavesWithoutFailure ==
    (/\ Ended /\ history.interrupted /\ history.failed = {}) =>
        /\ pc = "done"
        /\ \A n \in 1..Len(history.recorded) :
              Saved(history.recorded[n][1], history.recorded[n][2])
                 = Execution_to_json(history.recorded[n][3])

\* Some configured tool's image is not in the backend's list.
ListedTags ==
    UNION {{config.images[n].tags[m] : m \in 1..Len(config.images[n].tags)} :
              n \in 1..Len(config.images)}
ImageMissing == \E t \in ToolSet : docker_image_name(t) \notin ListedTags

\* C11: when the image of some configured tool is missing from the
\* backend's list, main ends in check_docker_images: no pair is planned, no
\* container is created and the file is as it was; when none is missing,
\* every configured tool has got the creation time of the image of its name.
C11_MissingImageAborts ==
    pc \notin {"load", "images"} =>
        /\ ImageMissing =>
              /\ pc = "crashed" /\ exc = "KeyError"
              /\ to_execute = <<>> /\ created = 0 /\ history.recorded = <<>>
              /\ file = history.file_at_start
        /\ ~ImageMissing =>
              /\ DOMAIN config.image_ages = ToolKeys
              /\ \A t \in ToolSet :
                    \E n \in 1..Len(config.images) :
                       /\ docker_image_name(t) \in
                             {config.images[n].tags[m] : m \in 1..Len(config.images[n].tags)}
                       /\ config.image_ages[unique_key(t)] = config.images[n].Created

\* The image of PET is missing while the others are listed, and main has
\* ended in check_docker_images.
C11_Witness ==
    /\ pc = "crashed" /\ exc = "KeyError"
    /\ "pet:latest" \notin ListedTags
    /\ "tempest:latest" \in ListedTags
    /\ history.file_at_start # None

\* C12: once the backend has answered a start, a wait or a reading of the
\* logs with an API error, this invocation records no Execution and creates
\* no container any more: it stays at the pair it was at, never reaches the
\* recording step, and when it has left run the finally clause has been
\* entered on the container (kill has been called) and it either has ended
\* or is on its way to the save that ends it.
C12_ApiErrorStopsRun ==
    history.fatal # None =>
        /\ created = history.fatal.created
        /\ Len(history.recorded) = history.fatal.recorded
        /\ idx = history.fatal.idx
        /\ pc \in {"run", "save", "done", "exited", "crashed"}
        /\ pc = "run" => rpc \in {"kill", "settle", "remove", "leave"}
        /\ pc # "run" =>
              /\ sandbox = NoSandbox
              /\ Len(history.cleanup) >= 1 /\ history.cleanup[1] = "kill"

\* An API error at the wait on the first of two planned pairs: the process
\* has exited with one container created and nothing recorded.
C12_Witness ==
    /\ history.fatal # None /\ pc = "exited" /\ exc = "SystemExit"
    /\ Len(to_execute) = 2 /\ idx = 1 /\ created = 1
    /\ history.recorded = <<>>
    /\ history.cleanup = <<"kill", "wait", "remove">>

\* The start of the container or the wait on it failed with a transport
\* failure, and the backend answered every other call made on the container.
TransportFailedOnly ==
    \E n \in 1..Len(Ops) :
       /\ n < CleanupFrom /\ Ops[n] \in {"start", "wait"}
       /\ Answers[n] = "ConnectionError"
       /\ \A m \in 1..Len(Ops) : m # n => Answers[m] = "ok"

C15_NoOverlapInOrder ==
    /\ history.open \in {0, 1}
    /\ created <= idx
    /\ sandbox # NoSandbox =>
          /\ pc = "run" /\ created = idx
          /\ history.open = (IF "remove" \in {Ops[n] : n \in 1..Len(Ops)} THEN 0 ELSE 1)
          /\ created > 1 => history.cleanup = <<"kill", "wait", "remove">>
    /\ Len(history.recorded) <= Len(to_execute)
    /\ \A n \in 1..Len(history.recorded) :
          /\ history.recorded[n][1] = to_execute[n][1].key
          /\ history.recorded[n][2] = unique_key(to_execute[n][2])

\* The container of the second pair has been created and started, after the
\* three attempts on the first one, whose kill was refused by the backend.
C15_Witness ==
    /\ pc = "run" /\ idx = 2 /\ created = 2 /\ rpc = "wait"
    /\ history.open = 1 /\ history.cleanup = <<"kill", "wait", "remove">>
    /\ Len(history.recorded) = 1 /\ "APIError" \in history.failed

\* The instance keys the file holds an Experiment for.
StoredKeys ==
    IF file = None \/ file = PartialFile THEN {} ELSE {d.key : d \in file.data}

\* The pair has been run and recorded in this invocation.
ReExecuted(key, tool_key) ==
    \E n \in 1..Len(history.recorded) :
       history.recorded[n][1] = key /\ history.recorded[n][2] = tool_key

\* C16: after an invocation that has reached the save step, the store holds
\* every Experiment that was loaded, under its key; for every pair that was
\* not run in this invocation the Execution that was loaded, unchanged (those
\* of instances and of tool keys that are no longer configured included);
\* and for every pair that was run, the Execution recorded for it.
C16_StoreOnlyGrows ==
    history.save_reached =>
        /\ DOMAIN history.loaded \subseteq StoredKeys
        /\ \A k \in DOMAIN history.loaded :
              \A t \in DOMAIN history.loaded[k].tool_executions :
                 ~ReExecuted(k, t) =>
                    Saved(k, t) = Execution_to_json(history.loaded[k].tool_executions[t])
        /\ \A n \in 1..Len(history.recorded) :
              Saved(history.recorded[n][1], history.recorded[n][2])
                 = Execution_to_json(history.recorded[n][3])

\* What does hold: the same of the mapping the save step is given, and of
\* the file when the dump has gone through.
C16_MappingOnlyGrows ==
    pc \in {"save", "done"} =>
        /\ DOMAIN history.loaded \subseteq DOMAIN experiments
        /\ \A k \in DOMAIN history.loaded :
              \A t \in DOMAIN history.loaded[k].tool_executions :
                 ~ReExecuted(k, t) =>
                    /\ t \in DOMAIN experiments[k].tool_executions
                    /\ experiments[k].tool_executions[t] = history.loaded[k].tool_executions[t]
        /\ \A n \in 1..Len(history.recorded) :
              experiments[history.recorded[n][1]].tool_executions[history.recorded[n][2]]
                 = history.recorded[n][3]
        /\ pc = "done" =>
              file = StoreFile({Experiment_to_json(experiments[k]) : k \in DOMAIN experiments})

\* The invocation has planned pairs that run can be entered for, and has
\* ended without an interrupt and without an API error of the backend.
EndedWithoutFatal ==
    /\ pc \in {"done", "crashed", "exited"} /\ to_execute # <<>>
    /\ ~history.interrupted /\ "APIError" \notin history.failed
    /\ MemoryAboveFloor(config.args.memory)
    /\ \A n \in 1..Len(to_execute) : AcceptsMemoryArgument(to_execute[n][2])

\* Every pair of the work list has been recorded, in order, and the file
\* holds the recorded Executions.
AllRecordedAndSaved ==
    /\ pc = "done"
    /\ Len(history.recorded) = Len(to_execute)
    /\ \A n \in 1..Len(history.recorded) :
          /\ history.recorded[n][1] = to_execute[n][1].key
          /\ history.recorded[n][2] = unique_key(to_execute[n][2])
          /\ Saved(history.recorded[n][1], history.recorded[n][2])
                = Execution_to_json(history.recorded[n][3])

\* C17: an invocation without interrupt and without API error of the
\* backend is not ended by the failure of a pair: when it has ended, every
\* pair of the work list has an Execution recorded in this invocation,
\* whatever its Result (Timeout, Error or Termination), and the store has
\* been saved with them.
C17_PairFailureNeverAborts ==
    EndedWithoutFatal => AllRecordedAndSaved

\* What does hold: the same, when moreover no call of the backend has
\* failed; the Timeouts and Errors are then those of the containers.
C17_WithoutBackendFailure ==
    (EndedWithoutFatal /\ history.failed = {}) => AllRecordedAndSaved

(***************************************************************************)
(* The recording step of the loop (lines 346-351) on its own: on a store   *)
(* without Experiment for the instance, and on stores with one, of the     *)
(* hash the instance has now or of another; for pairs that the planner     *)
(* finds stale on that store, of tools that run gives a Result for.        *)
(***************************************************************************)
RecordWorkLists ==
    {<<<<TheInstance, TOOLS[3]>>>>,
     <<<<TheInstance, TOOLS[3]>>, <<TheInstance, TOOLS[4]>>>>,
     <<<<TheInstance, TOOLS[5]>>>>}

RecordStores ==
    {EmptyDict}
    \cup {[k \in {"instance"} |-> PriorExperiment(h, sk[1], sk[2])] :
            h \in InputHashes, sk \in StalePairs}
    \cup {[k \in {"retired-instance"} |-> RetiredExperiment]}

RecordInit ==
    /\ call = None /\ ret = NotReturned
    /\ config = [Config(Args(FALSE, None, 1, 8 * 1024), FALSE, ImageList(ImageNames, 0))
                    EXCEPT !.image_ages =
                       check_docker_images(ImageList(ImageNames, 0), ToolSet).value]
    /\ file = None /\ exc = "" /\ rpc = "idle" /\ sandbox = NoSandbox
    /\ rerun = FALSE /\ now = 1
    /\ experiments \in RecordStores
    /\ to_execute \in RecordWorkLists
    /\ \A n \in 1..Len(to_execute) :
          LET instance == to_execute[n][1]
              key == unique_key(to_execute[n][2])
          IN  IF instance.key \notin DOMAIN experiments THEN TRUE
              ELSE IF experiments[instance.key].input_hash # instance.hash THEN TRUE
              ELSE IF key \notin DOMAIN experiments[instance.key].tool_executions THEN TRUE
              ELSE experiments[instance.key].tool_executions[key] # StoredExecutions.fresh
    /\ idx = 1 /\ created = 1 /\ pc = "record"
    /\ \E result \in PlanResults : frame = [pending |-> None, result |-> result]
    /\ history = [NoHistory EXCEPT !.loaded = experiments,
                                   !.cleanup = <<"kill", "wait", "remove">>]

SpecRecord == RecordInit /\ [][Record]_vars

C19_InputHashOfFirstRecording ==
    \A n \in 1..Len(history.recorded) :
       LET instance == to_execute[n][1]
       IN  /\ instance.key \in DOMAIN experiments
           /\ experiments[instance.key].input_hash =
                 IF instance.key \in DOMAIN history.loaded
                 THEN history.loaded[instance.key].input_hash
                 ELSE instance.hash

\* C21: after an interrupt delivered while a pair is being executed, no
\* container is created any more, and the loop is left only after kill, the
\* settle-wait and remove have all been attempted on the container that was
\* in flight.
C21_InterruptStopsAfterCleanup ==
    (history.interrupt # None /\ history.interrupt.in_flight) =>
        /\ created = history.interrupt.created
        /\ pc # "run" => history.cleanup = <<"kill", "wait", "remove">>

\* What does hold: the same for an interrupt that cuts short the start, the
\* wait or the reading of the logs, when no call of the backend fails and no
\* second interrupt comes.
C21_InterruptInTryStopsAfterCleanup ==
    (/\ history.interrupt # None /\ history.interrupt.in_flight
     /\ history.interrupt.phase \in {"start", "wait", "logs"}
     /\ history.disturbances = 1) =>
        /\ created = history.interrupt.created
        /\ pc # "run" => history.cleanup = <<"kill", "wait", "remove">>
        /\ pc \in {"run", "save", "done"}

\* C22: once the backend has answered a call of the try block with an API
\* error (and no interrupt is delivered), the save step is not reached: the
\* file stays exactly as it was when the invocation started, also when
\* Executions have been recorded for earlier pairs, and the invocation ends
\* by exiting or with the exception.
C22_ApiErrorDoesNotFlush ==
    (history.fatal # None /\ ~history.interrupted) =>
        /\ ~history.save_reached
        /\ file = history.file_at_start
        /\ pc \in {"run", "exited", "crashed"}

\* The process has exited on an API error at the second pair: the Execution
\* recorded for the first pair is in the mapping and not in the file.
C22_Witness ==
    /\ pc = "exited" /\ history.fatal # None /\ ~history.interrupted
    /\ history.fatal.idx = 2 /\ Len(history.recorded) = 1
    /\ experiments[history.recorded[1][1]].tool_executions[history.recorded[1][2]]
          = history.recorded[1][3]
    /\ file = history.file_at_start
    /\ Saved(history.recorded[1][1], history.recorded[1][2])
          # Execution_to_json(history.recorded[1][3])

(***************************************************************************)
(* recognize_error on its own: on logs that hold any of the markers, in    *)
(* stdout and in stderr, for every configured tool.                        *)
(***************************************************************************)
MemoryMarkers ==
    {"java.lang.OutOfMemoryError", "ArrayIndexOutOfBounds", "NegativeArraySizeException"}
ErrorMarkers ==
    MemoryMarkers \cup {"java.lang.StackOverflowError",
                        "Iterative method did not converge",
                        "IllegalArgumentException"}

\* A log that holds the given markers, each inside a line of other text,
\* after a first line without any.
MarkerOrder ==
    <<"IllegalArgumentException", "java.lang.StackOverflowError",
      "NegativeArraySizeException", "Iterative method did not converge",
      "java.lang.OutOfMemoryError", "ArrayIndexOutOfBounds">>
MarkerLines(markers) ==
    LET held(m) == m \in markers
        present == SelectSeq(MarkerOrder, held)
    IN  [n \in 1..Len(present) |-> <<"Exception in thread", present[n], "at explicit.Model">>]
MarkerLog(markers) == Str(<<<<"PRISM-games">>>> \o MarkerLines(markers))

ClassifyInit ==
    /\ ProcessIdle
    /\ \E tool \in ToolSet, exit_code \in {1, 2},
          in_stdout \in {{}, ErrorMarkers}, in_stderr \in SUBSET ErrorMarkers :
          call = [tool |-> tool, exit_code |-> exit_code,
                  in_stdout |-> in_stdout, in_stderr |-> in_stderr]
    /\ ret = NotReturned

Classify ==
    /\ ret = NotReturned
    /\ ret' = Return(recognize_error(MarkerLog(call.in_stdout), MarkerLog(call.in_stderr),
                                     call.exit_code, call.tool))
    /\ UNCHANGED call
    /\ UNCHANGED process

SpecClassify == ClassifyInit /\ [][Classify]_vars

\* C14: the classifier answers OUT_OF_MEMORY when stderr holds one of the
\* memory markers, whatever else it holds; else STACK_OVERFLOW when it holds
\* the stack-overflow marker; else CONVERGENCE on the convergence marker;
\* else INTERNAL on the illegal-argument marker; else what the tool's own
\* recognizer answers when that is not None, and GENERIC when it is.  What
\* stdout holds makes no difference.
C14_FirstMatchWins ==
    ret # NotReturned =>
        LET found == call.in_stderr
            tool_error == Tool_recognize_error(call.tool, MarkerLog(call.in_stdout),
                                               MarkerLog(call.in_stderr), call.exit_code)
        IN  ret.value =
               IF found \cap MemoryMarkers # {} THEN "OUT_OF_MEMORY"
               ELSE IF "java.lang.StackOverflowError" \in found THEN "STACK_OVERFLOW"
               ELSE IF "Iterative method did not converge" \in found THEN "CONVERGENCE"
               ELSE IF "IllegalArgumentException" \in found THEN "INTERNAL"
               ELSE IF tool_error # None THEN tool_error.value
               ELSE "GENERIC"

\* A stderr with a memory marker and the stack-overflow marker, and a stdout
\* with every marker, has been classified as OUT_OF_MEMORY.
C14_Witness ==
    /\ ret # NotReturned /\ ret.value = "OUT_OF_MEMORY"
    /\ call.in_stderr = {"ArrayIndexOutOfBounds", "java.lang.StackOverflowError"}
    /\ call.in_stdout = ErrorMarkers

(***************************************************************************)
(* Inputs of the hash specifications.                                      *)
(***************************************************************************)
FileContents == SeqsUpTo(Byte, MaxFileLen)
ConstNames == {<<1>>, <<1, 2>>, <<2>>}
ConstValues == {<<>>, <<1>>, <<2>>}
ConstItems == ConstNames \X ConstValues

\* The items of a dict: no name occurs twice.
ConstantDicts ==
    {c \in SeqsUpTo(ConstItems, MaxConstants) :
        \A i, j \in 1..Len(c) : i # j => c[i][1] # c[j][1]}

InsertionOrders(s) ==
    {t \in [1..Len(s) -> {s[i] : i \in 1..Len(s)}] :
        \A i \in 1..Len(s) : \E j \in 1..Len(s) : t[j] = s[i]}

ItemSet(c) == {c[i] : i \in 1..Len(c)}

HashInstance(key, m, p, c) ==
    [key |-> key, prism_model |-> m, prism_properties |-> p, constants |-> c]

\* Two instances over the same files whose constants are the same mapping,
\* inserted in two orders.
HashInit ==
    /\ ProcessIdle
    /\ \E m, p \in FileContents : \E c \in ConstantDicts : \E d \in InsertionOrders(c) :
          call = [a  |-> HashInstance("i", "model", "props", c),
                  b  |-> HashInstance("i", "model", "props", d),
                  fs |-> [f \in {"model", "props"} |-> IF f = "model" THEN m ELSE p]]
    /\ ret = NotReturned

HashBoth ==
    /\ ret = NotReturned
    /\ ret' = [returned |-> TRUE,
               a |-> create_hash(call.a, call.fs),
               b |-> create_hash(call.b, call.fs)]
    /\ UNCHANGED call
    /\ UNCHANGED process

SpecHash == HashInit /\ [][HashBoth]_vars

\* Two arbitrary instances, each with its own files.
HashPairInit ==
    /\ ProcessIdle
    /\ \E ma, pa, mb, pb \in FileContents : \E ca, cb \in ConstantDicts :
          call = [a  |-> HashInstance("a", "model_a", "props_a", ca),
                  b  |-> HashInstance("b", "model_b", "props_b", cb),
                  fs |-> [f \in {"model_a", "props_a", "model_b", "props_b"} |->
                             CASE f = "model_a" -> ma
                               [] f = "props_a" -> pa
                               [] f = "model_b" -> mb
                               [] OTHER -> pb]]
    /\ ret = NotReturned

SpecHashPair == HashPairInit /\ [][HashBoth]_vars

SameInputs ==
    /\ call.fs[call.a.prism_model] = call.fs[call.b.prism_model]
    /\ call.fs[call.a.prism_properties] = call.fs[call.b.prism_properties]
    /\ ItemSet(call.a.constants) = ItemSet(call.b.constants)

\* C9: two instances with the same model bytes, the same property bytes and
\* the same constants mapping, built in different insertion orders, have the
\* same hash.
C9_OrderIndependent ==
    (ret # NotReturned /\ SameInputs) => ret.a = ret.b

\* Two constants inserted in two different orders, one of them not the
\* sorted one, have been hashed.
C9_Witness ==
    /\ ret # NotReturned
    /\ SameInputs
    /\ Len(call.a.constants) = 2
    /\ call.a.constants # call.b.constants
    /\ ConstantsOrder(call.a.constants) # call.a.constants

\* C10: two instances have equal hashes exactly when their model bytes, their
\* property bytes and their constants mappings are equal.
C10_HashIffInputs ==
    ret # NotReturned => (ret.a = ret.b <=> SameInputs)

(***************************************************************************)
(* parse_outcome on its own: on every stdout of up to MaxStdoutLines lines *)
(* that start with the markers of the tools or with other text, for every  *)
(* configured tool.                                                        *)
(***************************************************************************)
MaxStdoutLines == 3

TempestResultLine(v) == <<"Result (for initial states):", v>>
OutputLines ==
    {ConstructionLine("0.5"), ConstructionLine("1.5"),
     ResultLine("0.25"), ResultLine("0.5"),
     TempestResultLine("0.25"), TempestResultLine("0.5"),
     <<"Warning:", "deadlock states detected">>}

ParseInit ==
    /\ ProcessIdle
    /\ \E tool \in ToolSet, lines \in SeqsUpTo(OutputLines, MaxStdoutLines) :
          call = [tool |-> tool, stdout |-> Str(lines)]
    /\ ret = NotReturned

Parse ==
    /\ ret = NotReturned
    /\ ret' = parse_outcome(call.tool, call.stdout, Str(StderrEmpty))
    /\ UNCHANGED call
    /\ UNCHANGED process

SpecParse == ParseInit /\ [][Parse]_vars

\* The result marker of a line-prefix parser.
ResultMarker(tool) ==
    IF tool.cls = "Tempest" THEN "Result (for initial states):" ELSE "Result:"

LastIndex(lines, marker) ==
    LET hits == {n \in 1..Len(lines) : startswith(lines[n], marker)}
    IN  IF hits = {} THEN 0 ELSE CHOOSE n \in hits : \A m \in hits : n >= m

\* C23: a line-prefix parser (the PRISM adapters, Tempest) takes the
\* construction time from the first line of stdout that starts with the
\* construction marker and the result from the last line that starts with
\* the result marker; when either marker is on no line the outcome is
\* absent.
C23_ResultOfLastLine ==
    (ret # NotReturned /\ call.tool.cls # "PET") =>
        LET lines == call.stdout.str
            c == FirstIndex(lines, "Time for model construction:")
            r == LastIndex(lines, ResultMarker(call.tool))
        IN  ret = IF c = 0 \/ r = 0 THEN Return(None)
                  ELSE Return(TerminationOutcome(float(WordAfter(lines[c])).value,
                                                 WordAfter(lines[r])))

\* The same with the result of the first line that starts with the result
\* marker.
C23_ResultOfFirstLine ==
    (ret # NotReturned /\ call.tool.cls # "PET") =>
        LET lines == call.stdout.str
            c == FirstIndex(lines, "Time for model construction:")
            r == FirstIndex(lines, ResultMarker(call.tool))
        IN  ret = IF c = 0 \/ r = 0 THEN Return(None)
                  ELSE Return(TerminationOutcome(float(WordAfter(lines[c])).value,
                                                 WordAfter(lines[r])))

\* A stdout with the construction line and two result lines of different
\* values has been parsed by a PRISM adapter: the outcome holds the value of
\* the first of them.
C23_Witness ==
    /\ ret # NotReturned /\ call.tool.cls = "PRISMGames"
    /\ call.stdout.str = <<ConstructionLine("0.5"), ResultLine("0.25"), ResultLine("0.5")>>
    /\ ret = Return(TerminationOutcome(50, "0.25"))

(***************************************************************************)
(* The definition hashes of the tools (main, class_hash and tool_hashes):  *)
(* the source text of every class of eval/tools is at the revision it had  *)
(* when the stored Execution was recorded or at a later one; the stored    *)
(* Execution is up to date in every other respect.                         *)
(***************************************************************************)
AdapterClasses ==
    {"Tool", "PRISMTool", "PRISMGames", "PRISMGamesExtensions", "PET", "Tempest"}
Revisions == {0, 1}

\* The base class named in the class statement (Tool has none among these).
BaseClass(cls) ==
    CASE cls = "PRISMGames" -> "PRISMTool"
      [] cls = "PRISMGamesExtensions" -> "PRISMTool"
      [] cls = "PRISMTool" -> "Tool"
      [] cls = "PET" -> "Tool"
      [] cls = "Tempest" -> "Tool"
      [] OTHER -> ""

\* The classes whose statements make up the definition of cls: the class
\* and the adapters it inherits from.
RECURSIVE Definition(_)
Definition(cls) ==
    IF cls = "" THEN {} ELSE {cls} \cup Definition(BaseClass(cls))

\* inspect.getsource(c): the text of the class statement of c, which holds
\* the body of c and nothing of its bases.
getsource(sources, c) == <<c, sources[c]>>

\* class_hash, over set(tool.__class__ for tool in TOOLS).
class_hash(sources) ==
    [c \in {TOOLS[n].cls : n \in 1..Len(TOOLS)} |->
        digest(update(sha256, <<getsource(sources, c)>>))]

\* tool_hashes, keyed here by the unique key of the tool.
ToolHashesOf(sources) ==
    [k \in ToolKeys |->
        LET tool == CHOOSE t \in ToolSet : unique_key(t) = k
        IN  class_hash(sources)[tool.cls]]

RecordedSources == [c \in AdapterClasses |-> 0]

\* The Experiment stored when the sources were at RecordedSources.
DefinitionExperiment(t) ==
    Experiment("instance", "hash-current",
               [k \in {unique_key(t)} |->
                   Execution(MaxTime, ToolHashesOf(RecordedSources)[k],
                             Error(Str(StdoutEmpty), Str(StderrValid("1")), 1, 1,
                                   "GENERIC"))])

DefinitionInit ==
    /\ ProcessIdle
    /\ \E t \in ToolSet, sources \in [AdapterClasses -> Revisions],
          has_trace \in BOOLEAN :
          call = [i |-> PlanInstance(t), t |-> t, e |-> DefinitionExperiment(t),
                  sources |-> sources,
                  scope |-> Scope(Args(FALSE, None, MaxDuration, 8192),
                                  ToolHashesOf(sources),
                                  [k \in ToolKeys |-> 0],
                                  PlanInstance(t), DefinitionExperiment(t), t,
                                  has_trace)]
    /\ ret = NotReturned

PlanAfterChange ==
    /\ ret = NotReturned
    /\ ret' = [returned |-> TRUE,
               plan |-> should_execute(call.i, call.t, call.e, call.scope)]
    /\ UNCHANGED call
    /\ UNCHANGED process

SpecDefinition == DefinitionInit /\ [][PlanAfterChange]_vars

\* The classes of the tool's definition whose text has changed since the
\* stored Execution was recorded.
ChangedParts ==
    {c \in Definition(call.t.cls) : call.sources[c] # RecordedSources[c]}

\* C24: when any part of a tool adapter's definition has changed, parts it
\* takes from a shared base adapter included, the tool's definition hash
\* differs from the stored one and the planner plans the stored pair again.
C24_AnyChangeRePlans ==
    (ret # NotReturned /\ ChangedParts # {}) =>
        /\ call.scope.tool_hashes[unique_key(call.t)]
              # StoredExecution.tool_hash
        /\ ret.plan = Return(TRUE)

\* The same for a change of the text of the tool's own class statement.
C24_OwnChangeRePlans ==
    (ret # NotReturned /\ call.t.cls \in ChangedParts) =>
        /\ call.scope.tool_hashes[unique_key(call.t)]
              # StoredExecution.tool_hash
        /\ ret.plan = Return(TRUE)

\* The text of PRISMTool alone has changed, and the pair of a PRISMGames
\* tool has been looked at by the planner and not planned.
C24_BaseChangeUnseen ==
    /\ ret # NotReturned /\ call.t = PRISMGames("explicit")
    /\ ChangedParts = {"PRISMTool"}
    /\ call.scope.tool_hashes[unique_key(call.t)] = StoredExecution.tool_hash
    /\ ret.plan # Return(TRUE)

(***************************************************************************)
(* Two invocations in a row, the first with every call of run answered by  *)
(* an Error or a Termination: load, image check, planning, the loop with   *)
(* its recording step, save; then the same again on the saved file, up to *)
(* the end of planning.                                                    *)
(***************************************************************************)
CycleResults ==
    {Error(Str(StdoutEmpty), Str(StderrValid("1")), 1, 1, "GENERIC"), FreshResult}

CycleInit ==
    /\ call = None /\ ret = NotReturned
    /\ \E has_trace \in BOOLEAN :
          config = Config(Args(FALSE, None, MaxDuration - 1, 8192), has_trace,
                          ImageList(ImageNames, 1))
    /\ file \in PriorFiles
    /\ pc = "load" /\ exc = ""
    /\ experiments = EmptyDict /\ to_execute = <<>> /\ idx = 0 /\ rpc = "idle"
    /\ frame = NoFrame /\ sandbox = NoSandbox /\ created = 0 /\ now = 1
    /\ rerun = FALSE /\ history = NoHistory

\* result = run(...) of line 345, for a run that returns a Result.
RunReturns ==
    /\ pc = "run" /\ ~rerun
    /\ \E result \in CycleResults : frame' = [pending |-> None, result |-> result]
    /\ created' = created + 1
    /\ pc' = "record"
    /\ UNCHANGED <<call, ret, exc, config, file, experiments, to_execute, idx, rpc,
                   sandbox, now, rerun, history>>

CycleNext ==
    \/ Load \/ CheckImages \/ Plan \/ RunReturns \/ Record \/ Save \/ Rerun

SpecCycle == CycleInit /\ [][CycleNext]_vars

\* The input hashes a file holds for the configured instance.
HashesIn(f) ==
    IF f = None THEN {}
    ELSE {d.hash : d \in {x \in f.data : x.key = TheInstance.key}}

\* The second invocation has finished planning.
PlannedAgain == rerun /\ pc \notin {"load", "images", "plan"}

C25_SecondPlanIsEmptyOnCurrentHash ==
    (/\ PlannedAgain /\ config.logger_has_trace
     /\ HashesIn(history.previous.file_at_start) \subseteq {TheInstance.hash}) =>
        pc = "nothing"

\* The first invocation found an Experiment of another input hash with an
\* Execution of every tool, and has run all tools; the second invocation
\* has planned all of them again.
C25_PlannedAgainForEver ==
    /\ PlannedAgain /\ pc = "run" /\ Len(to_execute) = Len(TOOLS)
    /\ HashesIn(history.previous.file_at_start) = {"hash-previous"}
    /\ experiments[TheInstance.key].input_hash # TheInstance.hash
    /\ \A k \in ToolKeys :
          experiments[TheInstance.key].tool_executions[k].timestamp >= 1

(***************************************************************************)
(* The durations of the Timeouts run returns (SpecRun).                    *)
(***************************************************************************)
\* run is returning a Timeout.
ReturnsTimeout ==
    RunLeft /\ Returns /\ isinstance(frame.pending.value, "Timeout")

\* C26: every Timeout run returns under the timeout T has a duration of at
\* least T, whether it comes from exit code 124, from exit code 137 or from
\* a transport failure of the backend, so that the planner's rule for
\* Timeouts shorter than the timeout does not hold for it under the same T.
C26_TimeoutLastsTheTimeout ==
    ReturnsTimeout =>
        /\ frame.pending.value.time >= call.timeout
        /\ ~TimeoutTooShort(frame.pending.value, call.timeout)

\* What does hold: the same for the Timeout of exit code 124, which
\* /usr/bin/timeout gives after timeout + 1 seconds.
C26_TimeoutOfCode124 ==
    (/\ ReturnsTimeout /\ sandbox.exit_code = 124
     /\ \A n \in 1..Len(Answers) : n < CleanupFrom => Answers[n] = "ok") =>
        /\ frame.pending.value.time >= call.timeout
        /\ ~TimeoutTooShort(frame.pending.value, call.timeout)

\* A container that was killed with exit code 137 at once: run returns a
\* Timeout of duration 0, with every call answered by the backend.
C26_EarlyKillIsShortTimeout ==
    /\ ReturnsTimeout /\ sandbox.exit_code = 137
    /\ \A n \in 1..Len(Answers) : Answers[n] = "ok"
    /\ frame.pending.value.time = 0
    /\ TimeoutTooShort(frame.pending.value, call.timeout)

(***************************************************************************)
(* The planning step within the whole program (Spec).                      *)
(***************************************************************************)
\* C27: planning has no effect on the store.  The step that computes the
\* work list is taken before any container is created and changes neither
\* the Experiments nor the file; once a container is created the work list
\* does not change any more; and an invocation whose work list is empty
\* ends with no container created and the file as it was at the start,
\* never opened for writing.
C27_PlanningLeavesStoreAlone ==
    [][/\ pc = "plan" =>
             /\ created = 0 /\ created' = 0
             /\ experiments' = experiments /\ experiments = history.loaded
             /\ file' = file
       /\ created' > created =>
             /\ to_execute' = to_execute /\ to_execute # <<>>
             /\ pc \notin {"load", "images", "plan"}
       /\ (pc = "plan" /\ pc' # "crashed" /\ to_execute' = <<>>) => pc' = "nothing"
       /\ (pc \notin {"load", "images", "plan"} /\ to_execute = <<>>) =>
             /\ created' = 0 /\ history'.open = 0
             /\ experiments' = history'.loaded
             /\ file' = history'.file_at_start
             /\ ~history'.save_reached]_vars

\* An invocation has loaded a store in which every pair is up to date, has
\* planned nothing and has ended, with the file as it was.
C27_Witness ==
    /\ pc = "nothing" /\ ~rerun
    /\ history.loaded # EmptyDict /\ experiments = history.loaded
    /\ to_execute = <<>> /\ created = 0
    /\ file = history.file_at_start /\ ~history.save_reached
====
